---------------------------- MODULE Spec2Model ----------------------------
(***************************************************************************)
(* A model of the agent-evaluation harness: the response analyser of       *)
(* eval/metrics.py (segmentation, claim matching, recall), the ranking of  *)
(* get_sorted_evaluation, and the orchestration of eval/harness.py.        *)
(*                                                                         *)
(* Text is a sequence of one-character strings, so that the regular        *)
(* expressions, substring tests, case folding and integer parsing of the   *)
(* source are computed on characters as the source computes them.          *)
(***************************************************************************)
EXTENDS Integers, Sequences, FiniteSets

VARIABLES
  response,      \* analyze_agent_response: the response text
  known_bugs,    \* analyze_agent_response: the ordered known-bug list
  seg,           \* the segmentation computed by the call (lines 31-56)
  analysis,      \* the dict the call returned, NoValue before the call
  evaluation,    \* get_sorted_evaluation: the evaluation mapping, in insertion order
  sorted_agents, \* the list get_sorted_evaluation returned, NoValue before the call
  agents,        \* EvaluationHarness.agents
  results,       \* EvaluationHarness.results, in insertion order
  cursor,        \* run_all_agents: the position of the loop in agents
  invoked,       \* the agents whose adapter was called, in call order
  outcomes,      \* how each adapter call ended, in call order
  argv,          \* main: the parsed command line and the environment
  codebase,      \* the directory tree at the codebase path
  self_bugs,     \* EvaluationHarness.bugs
  calls,         \* the texts analyze_agent_response was called with, in call order
  report,        \* the content of the output file, NoValue while it does not exist
  stdout,        \* the lines main printed
  exit_status,   \* the exit status of the process, -1 while it runs
  pc             \* the position of the running operation

vars == <<response, known_bugs, seg, analysis, evaluation, sorted_agents,
          agents, results, cursor, invoked, outcomes, argv, codebase, self_bugs,
          calls, report, stdout, exit_status, pc>>

NoValue == [none |-> TRUE]

\* Python's None where a str may stand: the one sequence that is no text, its
\* element being no character
None == <<"None">>

\* the state of a run of main that the operations below main leave alone
mainVars == <<argv, codebase, self_bugs, calls, report, stdout, exit_status>>

\* mainVars where no run of main has begun
NoMain ==
  /\ argv = NoValue
  /\ codebase = NoValue
  /\ self_bugs = <<>>
  /\ calls = <<>>
  /\ report = NoValue
  /\ stdout = <<>>
  /\ exit_status = -1


(***************************************************************************)
(* Characters and strings (Python str and the re character classes).       *)
(***************************************************************************)
Digit == {"0", "1", "2", "3", "4", "5", "6", "7", "8", "9"}

DigitValue ==
  [c \in Digit |->
     CASE c = "0" -> 0 [] c = "1" -> 1 [] c = "2" -> 2 [] c = "3" -> 3
       [] c = "4" -> 4 [] c = "5" -> 5 [] c = "6" -> 6 [] c = "7" -> 7
       [] c = "8" -> 8 [] c = "9" -> 9]

\* \s of re, and the whitespace of str.strip() and str.split()
Space == {" ", "\n", "\t"}

LowerLetter ==
  {"a", "b", "c", "d", "e", "f", "g", "h", "i", "j", "k", "l", "m",
   "n", "o", "p", "q", "r", "s", "t", "u", "v", "w", "x", "y", "z"}

UpperToLower ==
  [c \in {"A", "B", "C", "D", "E", "F", "G", "H", "I", "J", "K", "L", "M",
          "N", "O", "P", "Q", "R", "S", "T", "U", "V", "W", "X", "Y", "Z"} |->
     CASE c = "A" -> "a" [] c = "B" -> "b" [] c = "C" -> "c" [] c = "D" -> "d"
       [] c = "E" -> "e" [] c = "F" -> "f" [] c = "G" -> "g" [] c = "H" -> "h"
       [] c = "I" -> "i" [] c = "J" -> "j" [] c = "K" -> "k" [] c = "L" -> "l"
       [] c = "M" -> "m" [] c = "N" -> "n" [] c = "O" -> "o" [] c = "P" -> "p"
       [] c = "Q" -> "q" [] c = "R" -> "r" [] c = "S" -> "s" [] c = "T" -> "t"
       [] c = "U" -> "u" [] c = "V" -> "v" [] c = "W" -> "w" [] c = "X" -> "x"
       [] c = "Y" -> "y" [] c = "Z" -> "z"]

\* \w of re
WordChar == LowerLetter \cup DOMAIN UpperToLower \cup Digit \cup {"_"}

\* [\w./] of the file pattern
PathChar == WordChar \cup {".", "/"}

LowerChar(c) == IF c \in DOMAIN UpperToLower THEN UpperToLower[c] ELSE c

\* str.lower()
lower(t) == [i \in 1..Len(t) |-> LowerChar(t[i])]

\* t[i:].startswith(w), i a 1-based position
StartsAt(t, i, w) ==
  /\ i >= 1
  /\ i + Len(w) - 1 <= Len(t)
  /\ \A k \in 1..Len(w) : t[i + k - 1] = w[k]

\* w in t
Contains(t, w) == \E i \in 1..(Len(t) - Len(w) + 1) : StartsAt(t, i, w)

\* the least member of a set of positions, or none when the set is empty
FirstOf(S, none) == IF S = {} THEN none ELSE CHOOSE x \in S : \A y \in S : x <= y

LastOf(S, none) == IF S = {} THEN none ELSE CHOOSE x \in S : \A y \in S : x >= y

\* the first position >= i that holds no character of class C: the end of a
\* greedy C* that begins at i; Len(t)+1 when the run reaches the end
RECURSIVE SkipClass(_, _, _)
SkipClass(t, i, C) == IF i <= Len(t) /\ t[i] \in C THEN SkipClass(t, i + 1, C) ELSE i

\* the end of a greedy \s* that begins at i
SkipSpace(t, i) == SkipClass(t, i, Space)

\* the first position >= i that holds whitespace; Len(t)+1 when there is none
RECURSIVE SkipWord(_, _)
SkipWord(t, i) == IF i <= Len(t) /\ t[i] \notin Space THEN SkipWord(t, i + 1) ELSE i

\* the end of a greedy \d* that begins at i
SkipDigits(t, i) == SkipClass(t, i, Digit)

\* str.strip()
strip(t) ==
  LET a == SkipSpace(t, 1)
      b == LastOf({j \in 1..Len(t) : t[j] \notin Space}, 0)
  IN  IF a > Len(t) THEN <<>> ELSE SubSeq(t, a, b)

\* str.split(): the maximal runs of non-whitespace
RECURSIVE SplitFrom(_, _)
SplitFrom(t, i) ==
  LET a == SkipSpace(t, i)
      b == SkipWord(t, a)
  IN  IF a > Len(t) THEN <<>> ELSE <<SubSeq(t, a, b - 1)>> \o SplitFrom(t, b)

split(t) == SplitFrom(t, 1)

\* int() of a run of decimal digits
RECURSIVE ParseInt(_)
ParseInt(d) ==
  IF d = <<>> THEN 0
  ELSE 10 * ParseInt(SubSeq(d, 1, Len(d) - 1)) + DigitValue[d[Len(d)]]

(***************************************************************************)
(* The Response Segmenter: lines 31-56 of analyze_agent_response.          *)
(***************************************************************************)
THRESHOLD == 5

\* (?:^|\n)\s* of the numbered and the bold pattern can begin at position s
AtLineStart(t, s) == s = 1 \/ (s <= Len(t) /\ t[s] = "\n")

\* the lookahead \n\s*\d+\. holds at position p
NumberedAhead(t, p) ==
  /\ p <= Len(t)
  /\ t[p] = "\n"
  /\ LET d == SkipSpace(t, p + 1)
         e == SkipDigits(t, d)
     IN  e > d /\ e <= Len(t) /\ t[e] = "."

\* the numbered pattern matches at s: after (?:^|\n)\s* comes a digit
NumberedAt(t, s) ==
  /\ AtLineStart(t, s)
  /\ SkipSpace(t, s) <= Len(t)
  /\ t[SkipSpace(t, s)] \in Digit

\* Where the match that begins at s ends. The greedy \d+\.?\s* is consumed
\* first (the optional ** and File: that follow hold no line break); the lazy
\* .*? then stops at the first position where the lookahead holds, or at \Z.
NumberedEnd(t, s) ==
  LET d  == SkipSpace(t, s)
      e0 == SkipDigits(t, d)
      e1 == IF e0 <= Len(t) /\ t[e0] = "." THEN e0 + 1 ELSE e0
      e2 == SkipSpace(t, e1)
  IN  FirstOf({j \in e2..Len(t) : NumberedAhead(t, j)}, Len(t) + 1)

\* re.findall of the numbered pattern from position s on: the captured groups
RECURSIVE NumberedFrom(_, _)
NumberedFrom(t, s) ==
  LET s1 == FirstOf({j \in s..Len(t) : NumberedAt(t, j)}, 0)
  IN  IF s1 = 0 THEN <<>>
      ELSE <<SubSeq(t, SkipSpace(t, s1), NumberedEnd(t, s1) - 1)>>
             \o NumberedFrom(t, NumberedEnd(t, s1))

\* line 32
numbered_bugs(t) == NumberedFrom(t, 1)

W_file == <<"f","i","l","e">>
W_line == <<"l","i","n","e">>
W_bug == <<"b","u","g">>
W_issue == <<"i","s","s","u","e">>
W_problem == <<"p","r","o","b","l","e","m">>

\* (?:File|Line) under re.IGNORECASE begins at position L of the lowered text
SectionLabelAt(tl, L) == StartsAt(tl, L, W_file) \/ StartsAt(tl, L, W_line)

\* the position of the label of a match that begins at s, 0 when (?:^|\n)(?:File|Line)
\* does not match there
SectionLabel(tl, s) ==
  IF s = 1 /\ SectionLabelAt(tl, 1) THEN 1
  ELSE IF s <= Len(tl) /\ tl[s] = "\n" /\ SectionLabelAt(tl, s + 1) THEN s + 1
  ELSE 0

\* the end of (?:Bug|Issue|Problem) at position q of the lowered text, 0 when none
BugWordEnd(tl, q) ==
  IF StartsAt(tl, q, W_bug) THEN q + 3
  ELSE IF StartsAt(tl, q, W_issue) THEN q + 5
  ELSE IF StartsAt(tl, q, W_problem) THEN q + 7
  ELSE 0

\* the first Bug|Issue|Problem after the label of a match that begins at s, 0 when none
SectionWord(tl, s) ==
  FirstOf({q \in (SectionLabel(tl, s) + 4)..Len(tl) : BugWordEnd(tl, q) # 0}, 0)

SectionAt(tl, s) == SectionLabel(tl, s) # 0 /\ SectionWord(tl, s) # 0

\* the match ends at the first blank line after the word, or at \Z
SectionEnd(tl, s) ==
  FirstOf({j \in BugWordEnd(tl, SectionWord(tl, s))..Len(tl) :
             StartsAt(tl, j, <<"\n", "\n">>)}, Len(tl) + 1)

\* re.findall of the File/Line pattern: it has no group, so the whole matches
RECURSIVE SectionsFrom(_, _, _)
SectionsFrom(t, tl, s) ==
  LET s1 == FirstOf({j \in s..Len(t) : SectionAt(tl, j)}, 0)
  IN  IF s1 = 0 THEN <<>>
      ELSE <<SubSeq(t, s1, SectionEnd(tl, s1) - 1)>>
             \o SectionsFrom(t, tl, SectionEnd(tl, s1))

\* line 36
file_line_sections(t) == SectionsFrom(t, lower(t), 1)

W_stars == <<"*","*">>

\* the lookahead \n\s*\*\* holds at position p
BoldAhead(t, p) ==
  p <= Len(t) /\ t[p] = "\n" /\ StartsAt(t, SkipSpace(t, p + 1), W_stars)

\* the closing ** of a match that begins at s, 0 when the pattern fails at s
BoldClose(t, s) ==
  IF AtLineStart(t, s) /\ StartsAt(t, SkipSpace(t, s), W_stars)
  THEN FirstOf({j \in (SkipSpace(t, s) + 2)..Len(t) : StartsAt(t, j, W_stars)}, 0)
  ELSE 0

\* where the second group begins: after the closing ** and an optional colon
BoldBody(t, s) ==
  LET e == BoldClose(t, s) + 2
  IN  IF e <= Len(t) /\ t[e] = ":" THEN e + 1 ELSE e

BoldEnd(t, s) ==
  FirstOf({j \in BoldBody(t, s)..Len(t) : BoldAhead(t, j)}, Len(t) + 1)

\* re.findall of the bold pattern, each (bold_text, description) already
\* formatted as f"{bold_text}: {description}" (lines 48-52)
RECURSIVE BoldFrom(_, _)
BoldFrom(t, s) ==
  LET s1 == FirstOf({j \in s..Len(t) : BoldClose(t, j) # 0}, 0)
  IN  IF s1 = 0 THEN <<>>
      ELSE <<SubSeq(t, SkipSpace(t, s1) + 2, BoldClose(t, s1) - 1)
               \o <<":", " ">>
               \o SubSeq(t, BoldBody(t, s1), BoldEnd(t, s1) - 1)>>
             \o BoldFrom(t, BoldEnd(t, s1))

bold_sections(t) == BoldFrom(t, 1)

\* the last position of a match of \n\s*\n that begins at i, 0 when none: the
\* greedy \s* gives back to the last line break of the whitespace run
BlankEnd(t, i) ==
  IF i <= Len(t) /\ t[i] = "\n"
  THEN LastOf({j \in (i + 1)..(SkipSpace(t, i + 1) - 1) : t[j] = "\n"}, 0)
  ELSE 0

\* re.split(r'\n\s*\n', response), line 56
RECURSIVE SplitBlankFrom(_, _)
SplitBlankFrom(t, s) ==
  LET i == FirstOf({j \in s..Len(t) : BlankEnd(t, j) # 0}, 0)
  IN  IF i = 0 THEN <<SubSeq(t, s, Len(t))>>
      ELSE <<SubSeq(t, s, i - 1)>> \o SplitBlankFrom(t, BlankEnd(t, i) + 1)

split_blank_lines(t) == SplitBlankFrom(t, 1)

\* line 43: File/Line sections are added whenever there are any
AddSections(numbered, sections) == numbered \o sections

\* line 47: the bold fallback runs when fewer than 5 paragraphs were found
NeedsBold(paragraphs) == Len(paragraphs) < THRESHOLD

\* NeedsSplit with the threshold itself counted as too few
NeedsSplit_Inclusive(paragraphs) == Len(paragraphs) <= THRESHOLD

\* line 55: the blank-line split replaces the paragraphs found so far
NeedsSplit(paragraphs) == Len(paragraphs) < THRESHOLD

\* Lines 31-56: the candidate paragraphs, with the count each step found and
\* whether each fallback ran.
Segment(t) ==
  LET numbered == numbered_bugs(t)
      sections == file_line_sections(t)
      combined == AddSections(numbered, sections)
      bold_ran == NeedsBold(combined)
      bold     == IF bold_ran THEN bold_sections(t) ELSE <<>>
      extended == combined \o bold
      split_ran == NeedsSplit(extended)
  IN  [numbered   |-> Len(numbered),
       sections   |-> Len(combined) - Len(numbered),
       bold_ran   |-> bold_ran,
       bold       |-> Len(bold),
       split_ran  |-> split_ran,
       paragraphs |-> IF split_ran THEN split_blank_lines(t) ELSE extended]


(***************************************************************************)
(* The Claim Matcher: lines 58-133 of analyze_agent_response.              *)
(***************************************************************************)
\* lines 26-29
bug_indicators ==
  <<<<"b","u","g">>,
    <<"i","s","s","u","e">>,
    <<"p","r","o","b","l","e","m">>,
    <<"e","r","r","o","r">>,
    <<"i","n","c","o","r","r","e","c","t">>,
    <<"w","r","o","n","g">>,
    <<"m","i","s","s","i","n","g">>,
    <<"s","h","o","u","l","d">>,
    <<"i","m","p","r","o","p","e","r">>,
    <<"i","n","v","a","l","i","d">>,
    <<"f","a","i","l">>>>

\* "# bug:"
W_sentinel == <<"#"," ","b","u","g",":">>

\* "UNKNOWN"
UNKNOWN == <<"U","N","K","N","O","W","N">>

\* lines 97-98 and 112-113
STOPWORDS ==
  {<<"t","h","i","s">>,
   <<"t","h","a","t">>,
   <<"s","h","o","u","l","d">>,
   <<"w","o","u","l","d">>,
   <<"c","o","u","l","d">>,
   <<"w","i","l","l">>}

\* str.split('\n')
RECURSIVE SplitLinesFrom(_, _)
SplitLinesFrom(t, s) ==
  LET i == FirstOf({j \in s..Len(t) : t[j] = "\n"}, 0)
  IN  IF i = 0 THEN <<SubSeq(t, s, Len(t))>>
      ELSE <<SubSeq(t, s, i - 1)>> \o SplitLinesFrom(t, i + 1)

\* line 65
is_bug_paragraph(paragraph) ==
  \E k \in 1..Len(bug_indicators) : Contains(lower(paragraph), bug_indicators[k])

\* line 67, second disjunct
HasSentinelLine(paragraph) ==
  LET lines == SplitLinesFrom(lower(paragraph), 1)
  IN  \E k \in 1..Len(lines) : Contains(lower(lines[k]), W_sentinel)

\* line 67
BugShaped(paragraph) == is_bug_paragraph(paragraph) \/ HasSentinelLine(paragraph)

\* The alternatives (?:w|w:|\*\*w\*\*:?) followed by \s* at position i: where
\* each alternative that matches there leaves off, in the order they are tried.
LabelEnds(pl, i, w) ==
  LET bold == W_stars \o w \o W_stars
      e3   == i + Len(bold)
  IN  (IF StartsAt(pl, i, w) THEN <<SkipSpace(pl, i + Len(w))>> ELSE <<>>)
      \o (IF StartsAt(pl, i, w \o <<":">>)
          THEN <<SkipSpace(pl, i + Len(w) + 1)>> ELSE <<>>)
      \o (IF StartsAt(pl, i, bold)
          THEN <<SkipSpace(pl, IF e3 <= Len(pl) /\ pl[e3] = ":" THEN e3 + 1 ELSE e3)>>
          ELSE <<>>)

\* where (\d+) begins for a match of the line pattern that begins at i, 0 when the
\* pattern fails at i
LineGroupAt(pl, i) ==
  LET ends == SelectSeq(LabelEnds(pl, i, W_line),
                        LAMBDA d : d <= Len(pl) /\ pl[d] \in Digit)
  IN  IF ends = <<>> THEN 0 ELSE Head(ends)

\* line 71: re.search(r'(?:line|line:|\*\*line\*\*:?)\s*(\d+)', paragraph.lower())
line_match(pl) ==
  LET i == FirstOf({j \in 1..Len(pl) : LineGroupAt(pl, j) # 0}, 0)
      d == LineGroupAt(pl, i)
  IN  IF i = 0 THEN [found |-> FALSE, group |-> <<>>]
      ELSE [found |-> TRUE, group |-> SubSeq(pl, d, SkipDigits(pl, d) - 1)]

\* line 72: None is modelled as 0, which the test of line 83 treats alike
line_num(pl) == IF line_match(pl).found THEN ParseInt(line_match(pl).group) ELSE 0

W_py == <<".","p","y">>

\* The end of ['"]?([\w./]+\.py) at position a, 0 when it fails: the greedy
\* [\w./]+ gives back to the last ".py" of the run that has a character before it.
PathEnd(pl, a) ==
  LET q == IF a <= Len(pl) /\ pl[a] \in {"'", "\""} THEN a + 1 ELSE a
      r == SkipClass(pl, q, PathChar)
      k == LastOf({j \in (q + 1)..(r - 3) : StartsAt(pl, j, W_py)}, 0)
  IN  IF k = 0 THEN 0 ELSE k + 2

PathStart(pl, a) == IF a <= Len(pl) /\ pl[a] \in {"'", "\""} THEN a + 1 ELSE a

\* where ['"]?([\w./]+\.py) begins for a match of the file pattern that begins at
\* i, 0 when the pattern fails at i
FileGroupAt(pl, i) ==
  LET ends == SelectSeq(LabelEnds(pl, i, W_file), LAMBDA a : PathEnd(pl, a) # 0)
  IN  IF ends = <<>> THEN 0 ELSE Head(ends)

\* line 74: re.search(r'(?:file|file:|\*\*file\*\*:?)\s*[\'"]?([\w./]+\.py)[\'"]?', ...)
file_match(pl) ==
  LET i == FirstOf({j \in 1..Len(pl) : FileGroupAt(pl, j) # 0}, 0)
      a == FileGroupAt(pl, i)
  IN  IF i = 0 THEN [found |-> FALSE, group |-> <<>>]
      ELSE [found |-> TRUE, group |-> SubSeq(pl, PathStart(pl, a), PathEnd(pl, a))]

\* lines 97-98 and 112-113: the list of keywords of a lowered description
key_words(bug_desc) ==
  SelectSeq(split(bug_desc), LAMBDA w : Len(w) > 3 /\ w \notin STOPWORDS)

\* line 116
matching_words(bug_desc, pl) ==
  SelectSeq(key_words(bug_desc), LAMBDA w : Contains(pl, w))

\* LineRule with the captured digits compared as text to the bug's number: never equal
LineRule_TextCompared(num, bug) == FALSE

\* line 83
LineRule(num, bug) == num # 0 /\ num = bug.line

\* line 95
FileCompatible(file_path, bug_file) == Contains(file_path, bug_file)

\* lines 95-101
FileKeywordRule(fm, pl, bug) ==
  LET words == key_words(lower(bug.description))
  IN  /\ fm.found
      /\ FileCompatible(fm.group, lower(bug.file))
      /\ words # <<>>
      /\ \E k \in 1..Len(words) : Contains(pl, words[k])

\* line 117
KeywordRule(pl, bug) ==
  LET n == Len(matching_words(lower(bug.description), pl))
  IN  n >= 2 \/ (n = 1 /\ Len(key_words(lower(bug.description))) = 1)

\* FoundBug with the bug counted from 1
FoundBug_OneBased(paragraph, bug, bug_index, match_type) ==
  [known_bug         |-> lower(bug.description),
   agent_description |-> strip(paragraph),
   bug_index         |-> bug_index + 1,
   match_type        |-> match_type]

FoundBug(paragraph, bug, bug_index, match_type) ==
  [known_bug         |-> lower(bug.description),
   agent_description |-> strip(paragraph),
   bug_index         |-> bug_index,
   match_type        |-> match_type]

\* lines 129-133: an unmatched claim has no match_type
UnknownBug(paragraph) ==
  [known_bug         |-> UNKNOWN,
   agent_description |-> strip(paragraph),
   bug_index         |-> -1]

\* MatchFrom with a line rule that also wants the bug's file when the paragraph
\* names a file
RECURSIVE MatchFrom_LineNeedsFile(_, _, _, _, _)
MatchFrom_LineNeedsFile(paragraph, num, fm, bugs, i) ==
  LET pl == lower(paragraph)
  IN  IF i > Len(bugs) THEN <<>>
      ELSE IF /\ LineRule(num, bugs[i])
              /\ (fm.found => FileCompatible(fm.group, lower(bugs[i].file)))
        THEN <<FoundBug(paragraph, bugs[i], i - 1, "line_number")>>
      ELSE IF FileKeywordRule(fm, pl, bugs[i])
        THEN <<FoundBug(paragraph, bugs[i], i - 1, "file_and_keyword")>>
      ELSE IF KeywordRule(pl, bugs[i])
        THEN <<FoundBug(paragraph, bugs[i], i - 1, "keyword")>>
      ELSE MatchFrom_LineNeedsFile(paragraph, num, fm, bugs, i + 1)

\* MatchFrom with the rules tried one after the other over all the bugs: a bug
\* with the claimed line number wins over an earlier bug that a keyword accepts
MatchFrom_RuleMajor(paragraph, num, fm, bugs, i) ==
  LET pl == lower(paragraph)
      byLine == FirstOf({j \in i..Len(bugs) : LineRule(num, bugs[j])}, 0)
      byFile == FirstOf({j \in i..Len(bugs) : FileKeywordRule(fm, pl, bugs[j])}, 0)
      byWord == FirstOf({j \in i..Len(bugs) : KeywordRule(pl, bugs[j])}, 0)
  IN  IF byLine # 0
        THEN <<FoundBug(paragraph, bugs[byLine], byLine - 1, "line_number")>>
      ELSE IF byFile # 0
        THEN <<FoundBug(paragraph, bugs[byFile], byFile - 1, "file_and_keyword")>>
      ELSE IF byWord # 0
        THEN <<FoundBug(paragraph, bugs[byWord], byWord - 1, "keyword")>>
      ELSE <<>>

\* Lines 77-125: the loop over the known bugs from the i-th on (bug_index i-1),
\* for a stripped paragraph with the line number and the file match of lines
\* 71-75; the claim of the first bug a rule accepts, in a
\* one-element list, or the empty list.
RECURSIVE MatchFrom(_, _, _, _, _)
MatchFrom(paragraph, num, fm, bugs, i) ==
  LET pl == lower(paragraph)
  IN  IF i > Len(bugs) THEN <<>>
      ELSE IF LineRule(num, bugs[i])
        THEN <<FoundBug(paragraph, bugs[i], i - 1, "line_number")>>
      ELSE IF FileKeywordRule(fm, pl, bugs[i])
        THEN <<FoundBug(paragraph, bugs[i], i - 1, "file_and_keyword")>>
      ELSE IF KeywordRule(pl, bugs[i])
        THEN <<FoundBug(paragraph, bugs[i], i - 1, "keyword")>>
      ELSE MatchFrom(paragraph, num, fm, bugs, i + 1)

\* LogsUnmatched by the length alone
LogsUnmatched_LengthOnly(paragraph) == Len(paragraph) > 20

\* line 128
LogsUnmatched(paragraph) ==
  Len(paragraph) > 20 \/ Contains(lower(paragraph), W_sentinel)

\* ClassifyParagraph without the test of line 67
ClassifyParagraph_NoShapeTest(raw, bugs) ==
  LET paragraph == strip(raw)
      matched   == MatchFrom(paragraph, line_num(lower(paragraph)),
                             file_match(lower(paragraph)), bugs, 1)
  IN  IF paragraph = <<>> THEN <<>>
      ELSE IF matched # <<>> THEN matched
      ELSE IF LogsUnmatched(paragraph) THEN <<UnknownBug(paragraph)>>
      ELSE <<>>

\* Lines 59-133, the body of the loop for one paragraph: what it appends to
\* found_bugs.
ClassifyParagraph(raw, bugs) ==
  LET paragraph == strip(raw)
      matched   == MatchFrom(paragraph, line_num(lower(paragraph)),
                             file_match(lower(paragraph)), bugs, 1)
  IN  IF paragraph = <<>> THEN <<>>
      ELSE IF ~BugShaped(paragraph) THEN <<>>
      ELSE IF matched # <<>> THEN matched
      ELSE IF LogsUnmatched(paragraph) THEN <<UnknownBug(paragraph)>>
      ELSE <<>>

\* lines 58-133: found_bugs after the paragraphs from the k-th on
RECURSIVE ClassifyFrom(_, _, _)
ClassifyFrom(paragraphs, bugs, k) ==
  IF k > Len(paragraphs) THEN <<>>
  ELSE ClassifyParagraph(paragraphs[k], bugs) \o ClassifyFrom(paragraphs, bugs, k + 1)

(***************************************************************************)
(* The Metrics Aggregator: lines 135-146 of analyze_agent_response.        *)
(***************************************************************************)
\* a / b of two ints: a float, kept as the fraction, or the fault of b = 0
ZeroDivisionError == [fault |-> "ZeroDivisionError"]

Ratio(a, b) == [num |-> a, den |-> b]

Divide(a, b) == IF b = 0 THEN ZeroDivisionError ELSE Ratio(a, b)

\* the literal 0 of lines 144 and 170
ZERO == Ratio(0, 1)

\* line 136
matched_bugs(found_bugs) == SelectSeq(found_bugs, LAMBDA b : b.known_bug # UNKNOWN)

\* line 137
unique_bugs(found_bugs) ==
  {matched_bugs(found_bugs)[k].bug_index : k \in
     {j \in 1..Len(matched_bugs(found_bugs)) : matched_bugs(found_bugs)[j].bug_index >= 0}}

\* Recall over every matched claim instead of the distinct bugs
Recall_CountsEveryMatch(found_bugs, bugs) ==
  IF bugs # <<>> THEN Divide(Len(matched_bugs(found_bugs)), Len(bugs)) ELSE ZERO

\* line 144
Recall(found_bugs, bugs) ==
  IF bugs # <<>> THEN Divide(Cardinality(unique_bugs(found_bugs)), Len(bugs)) ELSE ZERO

\* lines 139-146
Aggregate(found_bugs, bugs) ==
  [total_known_bugs  |-> Len(bugs),
   bugs_found        |-> Len(matched_bugs(found_bugs)),
   unique_bugs_found |-> Cardinality(unique_bugs(found_bugs)),
   found_bug_details |-> found_bugs,
   recall            |-> Recall(found_bugs, bugs),
   unmatched_bugs    |-> Len(SelectSeq(found_bugs, LAMBDA b : b.known_bug = UNKNOWN))]


(***************************************************************************)
(* The inputs of analyze_agent_response: known-bug lists as a scan yields  *)
(* them (no two records share file and line) and response texts.           *)
(***************************************************************************)
MaxBugs == 2

MaxBlocks == 3

\* {file: "a.py", line: 42, description: "cache eviction fails"}
BUG_A ==
  [file |-> <<"a",".","p","y">>,
   line |-> 42,
   description |->
     <<"c","a","c","h","e"," ","e","v","i","c","t","i","o","n"," ","f","a","i","l","s">>]

\* {file: "cache.py", line: 24, description: "Using OrderedDict for LRU but not maintaining order properly"}
BUG_C ==
  [file |-> <<"c","a","c","h","e",".","p","y">>,
   line |-> 24,
   description |->
     <<"U","s","i","n","g"," ","O","r","d","e","r","e","d","D","i","c","t"," ","f","o",
      "r"," ","L","R","U"," ","b","u","t"," ","n","o","t"," ","m","a","i","n","t","a",
      "i","n","i","n","g"," ","o","r","d","e","r"," ","p","r","o","p","e","r","l","y">>]

\* {file: "src/cache.py", line: 42, description: "Timeout"}
BUG_S ==
  [file |-> <<"s","r","c","/","c","a","c","h","e",".","p","y">>,
   line |-> 42,
   description |->
     <<"T","i","m","e","o","u","t">>]

\* {file: "src/cache.py", line: 7, description: "Timeout handling missing"}
BUG_T ==
  [file |-> <<"s","r","c","/","c","a","c","h","e",".","p","y">>,
   line |-> 7,
   description |-> <<"T","i","m","e","o","u","t"," ","h","a","n","d","l","i","n","g"," ","m","i","s","s",
    "i","n","g">>]

\* {file: "b.py", line: 7, description: "Timeout error on timeout path"}
BUG_R ==
  [file |-> <<"b",".","p","y">>,
   line |-> 7,
   description |-> <<"T","i","m","e","o","u","t"," ","e","r","r","o","r"," ","o","n"," ","t","i","m","e",
    "o","u","t"," ","p","a","t","h">>]

BugPool == {BUG_A, BUG_C, BUG_S}

\* known-bug lists for the matcher's rules: a bug whose file is longer than the
\* file a response names, and a bug whose description repeats a keyword
ScenarioBugLists == {<<BUG_T>>, <<BUG_R>>}

\* the lists of at most MaxBugs distinct records of the pool
KnownBugLists ==
  UNION {{b \in [1..n -> BugPool] : \A i, j \in 1..n : b[i] = b[j] => i = j} :
           n \in 0..MaxBugs}

\* "1. Line 42: totally different words here"
R_LINE42 ==
  <<"1","."," ","L","i","n","e"," ","4","2",":"," ","t","o","t","a","l","l","y"," ","d",
    "i","f","f","e","r","e","n","t"," ","w","o","r","d","s"," ","h","e","r","e">>

\* "The weather today is nice."
R_WEATHER ==
  <<"T","h","e"," ","w","e","a","t","h","e","r"," ","t","o","d","a","y"," ","i","s"," ",
    "n","i","c","e",".">>

\* "1. cache.py:24 - Using OrderedDict for LRU but not maintaining order properly. Solution: move to end on access."
R_COMPACT ==
  <<"1","."," ","c","a","c","h","e",".","p","y",":","2","4"," ","-"," ","U","s","i","n",
    "g"," ","O","r","d","e","r","e","d","D","i","c","t"," ","f","o","r"," ","L","R","U",
    " ","b","u","t"," ","n","o","t"," ","m","a","i","n","t","a","i","n","i","n","g"," ",
    "o","r","d","e","r"," ","p","r","o","p","e","r","l","y","."," ","S","o","l","u","t",
    "i","o","n",":"," ","m","o","v","e"," ","t","o"," ","e","n","d"," ","o","n"," ","a",
    "c","c","e","s","s",".">>

\* "1. issue\n2. timeout error\n3. bug"
K_THREE ==
  <<"1","."," ","i","s","s","u","e","\n","2","."," ","t","i","m","e","o","u","t"," ",
    "e","r","r","o","r","\n","3","."," ","b","u","g">>

\* "4. Line 42 is wrong\n5. Line 24: cache eviction error"
K_TWO ==
  <<"4","."," ","L","i","n","e"," ","4","2"," ","i","s"," ","w","r","o","n","g","\n",
    "5","."," ","L","i","n","e"," ","2","4",":"," ","c","a","c","h","e"," ","e","v","i",
    "c","t","i","o","n"," ","e","r","r","o","r">>

\* "File: src/cache.py\nBug: timeout not handled"
K_SECTION ==
  <<"F","i","l","e",":"," ","s","r","c","/","c","a","c","h","e",".","p","y","\n","B",
    "u","g",":"," ","t","i","m","e","o","u","t"," ","n","o","t"," ","h","a","n","d","l",
    "e","d">>

\* "**Problem**: eviction fails"
K_BOLD ==
  <<"*","*","P","r","o","b","l","e","m","*","*",":"," ","e","v","i","c","t","i","o","n",
    " ","f","a","i","l","s">>

\* "File: cache.py\nBug: timeout not handled"
R_FILE ==
  <<"F","i","l","e",":"," ","c","a","c","h","e",".","p","y","\n","B","u","g",":"," ",
    "t","i","m","e","o","u","t"," ","n","o","t"," ","h","a","n","d","l","e","d">>

\* "File: src/cache.py, Line 42\nBug: timeout not handled"
R_FILELINE ==
  <<"F","i","l","e",":"," ","s","r","c","/","c","a","c","h","e",".","p","y",","," ","L",
    "i","n","e"," ","4","2","\n","B","u","g",":"," ","t","i","m","e","o","u","t"," ",
    "n","o","t"," ","h","a","n","d","l","e","d">>

\* "# BUG: x"
R_SENTINEL ==
  <<"#"," ","B","U","G",":"," ","x">>

\* whole responses: the scenarios of the specification's testable properties
ScenarioResponses == {R_LINE42, R_WEATHER, R_COMPACT, R_FILE, R_FILELINE, R_SENTINEL}

\* the blocks responses are composed of
BlockPool == {K_THREE, K_TWO, K_SECTION, K_BOLD}

\* the blocks joined by blank lines
RECURSIVE JoinBlocks(_)
JoinBlocks(blocks) ==
  IF Len(blocks) = 1 THEN blocks[1]
  ELSE blocks[1] \o <<"\n", "\n">> \o JoinBlocks(Tail(blocks))

Responses ==
  ScenarioResponses \cup {<<>>}
    \cup {JoinBlocks(b) : b \in UNION {[1..n -> BlockPool] : n \in 1..MaxBlocks}}

(***************************************************************************)
(* analyze_agent_response as a state machine: the call on one response and *)
(* one known-bug list.                                                     *)
(***************************************************************************)
\* lines 58-146, on the paragraphs of lines 31-56
AnalyzeSegmented(sg, bugs) == Aggregate(ClassifyFrom(sg.paragraphs, bugs, 1), bugs)

\* lines 10-146
analyze_agent_response(t, bugs) == AnalyzeSegmented(Segment(t), bugs)

InitAnalyze ==
  /\ response \in Responses
  /\ known_bugs \in KnownBugLists \cup ScenarioBugLists
  /\ seg = NoValue
  /\ analysis = NoValue
  /\ evaluation = <<>>
  /\ sorted_agents = <<>>
  /\ agents = <<>>
  /\ results = <<>>
  /\ cursor = 0
  /\ invoked = <<>>
  /\ outcomes = <<>>
  /\ pc = "ready"
  /\ NoMain

AnalyzeResponse ==
  /\ pc = "ready"
  /\ seg' = Segment(response)
  /\ analysis' = AnalyzeSegmented(seg', known_bugs)
  /\ pc' = "analyzed"
  /\ UNCHANGED <<response, known_bugs, evaluation, sorted_agents, agents, results,
                 cursor, invoked, outcomes>>
  /\ UNCHANGED mainVars

NextAnalyze == AnalyzeResponse

SpecAnalyze == InitAnalyze /\ [][NextAnalyze]_vars

(***************************************************************************)
(* What the claims speak of, read off the state after the call.            *)
(***************************************************************************)
Analyzed == pc = "analyzed"

\* the claims of the returned result, in order
Claims == analysis.found_bug_details

\* lines 89, 106, 122 and 129-133: an entry without match_type has kind none
MatchKind(c) == IF "match_type" \in DOMAIN c THEN c.match_type ELSE "none"

\* the positions of the claims that are matched to a known bug
MatchedClaims == {k \in 1..Len(Claims) : MatchKind(Claims[k]) # "none"}

\* the candidate paragraphs as the loop sees them (line 60), the empty ones dropped
Paragraphs == {strip(seg.paragraphs[k]) : k \in 1..Len(seg.paragraphs)} \ {<<>>}

\* the positions of the claims made from paragraph p
ClaimsFor(p) == {k \in 1..Len(Claims) : Claims[k].agent_description = p}

\* no keyword of the bug's description appears in the paragraph
SharesNoKeyword(p, bug) == matching_words(lower(bug.description), lower(p)) = <<>>

\* some rule of lines 83-117 accepts the bug for the paragraph
Accepts(p, bug) ==
  \/ LineRule(line_num(lower(p)), bug)
  \/ FileKeywordRule(file_match(lower(p)), lower(p), bug)
  \/ KeywordRule(lower(p), bug)

\* "Line 42"
W_Line42 == <<"L","i","n","e"," ","4","2">>

(***************************************************************************)
(* C1                                                                      *)
(***************************************************************************)
\* C1: recall is the number of distinct bug indices matched by at least one
\* claim over the number of known bugs, so a bug matched by several claims counts
\* once and unmatched claims do not count; with no known bug recall is 0 and the
\* division is not attempted.
C1_RecallCountsDistinctMatchedBugs ==
  Analyzed =>
    LET hit == {Claims[k].bug_index : k \in MatchedClaims}
    IN  /\ analysis.recall # ZeroDivisionError
        /\ IF known_bugs = <<>>
           THEN analysis.recall.num = 0
           ELSE analysis.recall = Ratio(Cardinality(hit), Len(known_bugs))

\* a bug matched by two claims, next to a claim that matches nothing
C1_Witness ==
  /\ Analyzed
  /\ \E j, k \in MatchedClaims : j # k /\ Claims[j].bug_index = Claims[k].bug_index
  /\ \E k \in 1..Len(Claims) : MatchKind(Claims[k]) = "none"
  /\ analysis.recall = Ratio(1, Len(known_bugs))

(***************************************************************************)
(* C2                                                                      *)
(***************************************************************************)
\* C2: for a non-empty known-bug list every matched bug index lies in
\* 0 .. total_known_bugs-1 and 0 <= recall <= 1.
C2_IndicesInRangeRecallInUnitInterval ==
  (Analyzed /\ known_bugs # <<>>) =>
    /\ \A k \in MatchedClaims :
         Claims[k].bug_index \in 0..(analysis.total_known_bugs - 1)
    /\ analysis.recall # ZeroDivisionError
    /\ analysis.recall.den > 0
    /\ 0 <= analysis.recall.num
    /\ analysis.recall.num <= analysis.recall.den

\* every bug of a two-bug list is matched, the last one included: recall is 1
C2_Witness ==
  /\ Analyzed
  /\ Len(known_bugs) = MaxBugs
  /\ \A i \in 0..(Len(known_bugs) - 1) : \E k \in MatchedClaims : Claims[k].bug_index = i
  /\ analysis.recall.num = analysis.recall.den

C4_LineMatchNeverOverridden ==
  Analyzed =>
    \A p \in Paragraphs :
      ( /\ BugShaped(p)
        /\ \E i \in 1..Len(known_bugs) : LineRule(line_num(lower(p)), known_bugs[i]) )
      => /\ ClaimsFor(p) # {}
         /\ \A k \in ClaimsFor(p) :
              /\ MatchKind(Claims[k]) = "line_number"
              /\ known_bugs[Claims[k].bug_index + 1].line = line_num(lower(p))

(***************************************************************************)
(* C5                                                                      *)
(***************************************************************************)
\* C5: a paragraph with no indicator word and no sentinel text never produces a
\* claim, matched or unmatched, whatever line number, file or keywords it holds.
C5_NotBugShapedNeverClaims ==
  Analyzed =>
    \A p \in Paragraphs :
      ( /\ \A n \in 1..Len(bug_indicators) : ~Contains(lower(p), bug_indicators[n])
        /\ ~Contains(lower(p), W_sentinel) )
      => ClaimsFor(p) = {}

\* a paragraph without indicator word that names the line of a known bug, and no
\* claim at all
C5_Witness ==
  /\ Analyzed
  /\ Claims = <<>>
  /\ \E p \in Paragraphs : \E i \in 1..Len(known_bugs) :
       ~BugShaped(p) /\ LineRule(line_num(lower(p)), known_bugs[i])

(***************************************************************************)
(* C6                                                                      *)
(***************************************************************************)
\* C6: with ground truth [{cache.py, 24, "Using OrderedDict for LRU but not
\* maintaining order properly"}] and the response "1. cache.py:24 - Using
\* OrderedDict ... on access." recall is 1.0 and there is exactly one claim, of
\* kind line_number.
C6_CompactFileLineFormRecognised ==
  (Analyzed /\ response = R_COMPACT /\ known_bugs = <<BUG_C>>) =>
    /\ analysis.recall = Ratio(1, 1)
    /\ Len(Claims) = 1
    /\ MatchKind(Claims[1]) = "line_number"

(***************************************************************************)
(* C7                                                                      *)
(***************************************************************************)
\* C7: a response with five numbered items yields exactly 5 candidate paragraphs
\* and the blank-line split is not invoked, also when the items hold File/Line ...
\* Bug/Issue/Problem sections.
C7_FiveNumberedItemsFiveParagraphs ==
  (Analyzed /\ seg.numbered = 5) =>
    Len(seg.paragraphs) = 5 /\ ~seg.split_ran

(***************************************************************************)
(* C8                                                                      *)
(***************************************************************************)
\* C8: every step of the cascade after the first runs only if the step before it
\* left fewer than 5 paragraphs; File/Line sections contribute candidates only
\* when fewer than 5 numbered items were found.
C8_CascadeStepsOnlyBelowThreshold ==
  Analyzed =>
    /\ seg.sections > 0 => seg.numbered < THRESHOLD
    /\ seg.bold_ran => seg.numbered + seg.sections < THRESHOLD
    /\ seg.split_ran => seg.numbered + seg.sections + seg.bold < THRESHOLD


(***************************************************************************)
(* get_sorted_evaluation: lines 176-190 of eval/metrics.py.  A mapping is  *)
(* the sequence of its (key, value) items in insertion order.              *)
(***************************************************************************)
\* x[1]['recall'] < y[1]['recall'] of two floats kept as fractions
RecallLess(x, y) == x[2].recall.num * y[2].recall.den < y[2].recall.num * x[2].recall.den

\* InsertDescending as an ascending sort read backwards: equal recalls swap
InsertDescending_TiesFirst(placed, x) ==
  LET n == Cardinality({i \in 1..Len(placed) : RecallLess(x, placed[i])})
  IN  SubSeq(placed, 1, n) \o <<x>> \o SubSeq(placed, n + 1, Len(placed))

\* One step of the stable descending sort: item x goes behind every item already
\* placed whose recall is not less than its own, so equal recalls keep their order.
InsertDescending(placed, x) ==
  LET n == Cardinality({i \in 1..Len(placed) : ~RecallLess(placed[i], x)})
  IN  SubSeq(placed, 1, n) \o <<x>> \o SubSeq(placed, n + 1, Len(placed))

RECURSIVE SortedDescending(_, _)
SortedDescending(placed, items) ==
  IF items = <<>> THEN placed
  ELSE SortedDescending(InsertDescending(placed, Head(items)), Tail(items))

\* lines 186-190: sorted(evaluation.items(), key=recall, reverse=True)
get_sorted_evaluation(ev) == SortedDescending(<<>>, ev)

MaxRanked == 3

AgentPool == {"A", "B", "C", "D"}

\* lines 166-172: the metrics of a failed agent, for a known-bug list of n records
FailedMetrics(n, stderr) ==
  [total_known_bugs  |-> n,
   bugs_found        |-> 0,
   found_bug_details |-> <<>>,
   recall            |-> ZERO,
   error             |-> stderr]

\* "Process timed out"
E_TIMED_OUT ==
  <<"P","r","o","c","e","s","s"," ","t","i","m","e","d"," ","o","u","t">>

\* metrics of agents scored on ten known bugs (recall 0.5, 0.8, 1/2 of two), and of
\* a failed agent
MetricsPool ==
  {[recall |-> Ratio(5, 10)], [recall |-> Ratio(8, 10)], [recall |-> Ratio(1, 2)],
   FailedMetrics(10, E_TIMED_OUT)}

\* the mappings of at most MaxRanked agents: the keys of a dict are distinct
EvaluationMappings ==
  UNION {{e \in [1..n -> AgentPool \X MetricsPool] :
            \A i, j \in 1..n : e[i][1] = e[j][1] => i = j} : n \in 0..MaxRanked}

InitRank ==
  /\ evaluation \in EvaluationMappings
  /\ sorted_agents = <<>>
  /\ response = <<>>
  /\ known_bugs = <<>>
  /\ seg = NoValue
  /\ analysis = NoValue
  /\ agents = <<>>
  /\ results = <<>>
  /\ cursor = 0
  /\ invoked = <<>>
  /\ outcomes = <<>>
  /\ pc = "unsorted"
  /\ NoMain

SortEvaluation ==
  /\ pc = "unsorted"
  /\ sorted_agents' = get_sorted_evaluation(evaluation)
  /\ pc' = "sorted"
  /\ UNCHANGED <<response, known_bugs, seg, analysis, evaluation, agents, results,
                 cursor, invoked, outcomes>>
  /\ UNCHANGED mainVars

NextRank == SortEvaluation

SpecRank == InitRank /\ [][NextRank]_vars

(***************************************************************************)
(* C9                                                                      *)
(***************************************************************************)
\* the position of agent a in the evaluation mapping
InputPosition(a) == CHOOSE i \in 1..Len(evaluation) : evaluation[i][1] = a

\* C9: get_sorted_evaluation returns every agent of the mapping once, ordered by
\* recall descending, and agents with equal recall keep their input order; failed
\* agents (recall 0) included.
C9_SortedByRecallStable ==
  pc = "sorted" =>
    /\ Len(sorted_agents) = Len(evaluation)
    /\ \A i \in 1..Len(evaluation) :
         \E j \in 1..Len(sorted_agents) : sorted_agents[j] = evaluation[i]
    /\ \A i, j \in 1..Len(sorted_agents) :
         i < j =>
           /\ ~RecallLess(sorted_agents[i], sorted_agents[j])
           /\ ~RecallLess(sorted_agents[j], sorted_agents[i])
                => InputPosition(sorted_agents[i][1]) < InputPosition(sorted_agents[j][1])

\* A (0.5), B (0.8), C (0.5) in that order are returned as B, A, C
C9_Witness ==
  /\ pc = "sorted"
  /\ evaluation = <<<<"A", [recall |-> Ratio(5, 10)]>>,
                    <<"B", [recall |-> Ratio(8, 10)]>>,
                    <<"C", [recall |-> Ratio(5, 10)]>>>>
  /\ sorted_agents = <<evaluation[2], evaluation[1], evaluation[3]>>


(***************************************************************************)
(* The Harness Orchestrator: EvaluationHarness of eval/harness.py.  The    *)
(* adapter is agent_wrappers.run_agent: it returns the response text or    *)
(* raises.                                                                 *)
(***************************************************************************)
MaxAgents == 3

\* "Timeout - agent took too long to respond"
T_TIMEOUT_RESPONSE ==
  <<"T","i","m","e","o","u","t"," ","-"," ","a","g","e","n","t"," ","t","o","o","k"," ",
    "t","o","o"," ","l","o","n","g"," ","t","o"," ","r","e","s","p","o","n","d">>

\* "Error running agent"
T_ERROR_RESPONSE ==
  <<"E","r","r","o","r"," ","r","u","n","n","i","n","g"," ","a","g","e","n","t">>

\* "Could not load agent"
E_COULD_NOT_LOAD ==
  <<"C","o","u","l","d"," ","n","o","t"," ","l","o","a","d"," ","a","g","e","n","t">>

\* "Framework not found"
E_NOT_FOUND ==
  <<"F","r","a","m","e","w","o","r","k"," ","n","o","t"," ","f","o","u","n","d">>

\* what the adapter returns
AdapterResponses == {R_WEATHER, K_SECTION}

\* what the adapter raises: the errors of agent_wrappers.run_agent (lines 54, 61),
\* the TimeoutError that run_agent tells apart, and an error of the framework's
\* run_agent (lines 39, 52) whose text is "Process timed out"
AdapterExceptions ==
  {[class |-> "TimeoutError", message |-> <<>>],
   [class |-> "ValueError", message |-> E_COULD_NOT_LOAD],
   [class |-> "ImportError", message |-> E_NOT_FOUND],
   [class |-> "RuntimeError", message |-> E_TIMED_OUT]}

\* the classes of AdapterExceptions that derive from Exception
ExceptionClasses == {"TimeoutError", "ValueError", "ImportError", "RuntimeError"}

\* Caught without the except Exception clause of line 139
Caught_TimeoutOnly(e) == e.class = "TimeoutError"

\* lines 131 and 139: the except clauses of run_agent catch the exception
Caught(e) == e.class = "TimeoutError" \/ e.class \in ExceptionClasses

\* lines 124-129
SuccessResult(agent, text) ==
  [agent |-> agent, success |-> TRUE, response |-> text, stderr |-> None]

\* lines 131-146
FailureResult(agent, e) ==
  IF e.class = "TimeoutError"
  THEN [agent |-> agent, success |-> FALSE, response |-> T_TIMEOUT_RESPONSE,
        stderr |-> E_TIMED_OUT]
  ELSE [agent |-> agent, success |-> FALSE, response |-> T_ERROR_RESPONSE,
        stderr |-> e.message]

\* d[key] = value on a dict: a new key goes last, a known key keeps its place
DictSet(d, key, value) ==
  IF \E i \in 1..Len(d) : d[i][1] = key
  THEN [i \in 1..Len(d) |-> IF d[i][1] = key THEN <<key, value>> ELSE d[i]]
  ELSE Append(d, <<key, value>>)

DictKeys(d) == {d[i][1] : i \in 1..Len(d)}

DictGet(d, key) == d[CHOOSE i \in 1..Len(d) : d[i][1] = key][2]

\* the agent lists a harness is constructed with
AgentLists == UNION {[1..n -> AgentPool] : n \in 0..MaxAgents}

\* lines 41-55: the harness after construction
Init ==
  /\ agents \in AgentLists
  /\ results = <<>>
  /\ cursor = 0
  /\ invoked = <<>>
  /\ outcomes = <<>>
  /\ response = <<>>
  /\ known_bugs = <<>>
  /\ seg = NoValue
  /\ analysis = NoValue
  /\ evaluation = <<>>
  /\ sorted_agents = <<>>
  /\ pc = "constructed"
  /\ NoMain

\* line 158: run_all_agents is called and its loop begins
BeginRunAll ==
  /\ pc = "constructed"
  /\ cursor' = 1
  /\ pc' = "loop"
  /\ UNCHANGED <<response, known_bugs, seg, analysis, evaluation, sorted_agents,
                 agents, results, invoked, outcomes>>
  /\ UNCHANGED mainVars

\* lines 159 and 106-119: run_agent calls the adapter for the next agent
InvokeAdapter ==
  /\ pc = "loop"
  /\ cursor <= Len(agents)
  /\ invoked' = Append(invoked, agents[cursor])
  /\ pc' = "invoked"
  /\ UNCHANGED <<response, known_bugs, seg, analysis, evaluation, sorted_agents,
                 agents, results, cursor, outcomes>>
  /\ UNCHANGED mainVars

\* lines 119-129 and 160: the adapter returns, the result is stored
AdapterReturns ==
  /\ pc = "invoked"
  /\ \E text \in AdapterResponses :
       /\ outcomes' = Append(outcomes, [class |-> "return", message |-> text])
       /\ results' = DictSet(results, agents[cursor], SuccessResult(agents[cursor], text))
  /\ cursor' = cursor + 1
  /\ pc' = "loop"
  /\ UNCHANGED <<response, known_bugs, seg, analysis, evaluation, sorted_agents,
                 agents, invoked>>
  /\ UNCHANGED mainVars

\* lines 119-129 and 160: the adapter returns a value that is no str (None); the
\* result is stored as a success
AdapterReturnsMalformed ==
  /\ pc = "invoked"
  /\ outcomes' = Append(outcomes, [class |-> "return", message |-> None])
  /\ results' = DictSet(results, agents[cursor], SuccessResult(agents[cursor], None))
  /\ cursor' = cursor + 1
  /\ pc' = "loop"
  /\ UNCHANGED <<response, known_bugs, seg, analysis, evaluation, sorted_agents,
                 agents, invoked>>
  /\ UNCHANGED mainVars

\* lines 131-146 and 160: the adapter raises; a caught exception becomes the
\* stored result, any other leaves run_agent and run_all_agents
AdapterRaises ==
  /\ pc = "invoked"
  /\ \E e \in AdapterExceptions :
       /\ outcomes' = Append(outcomes, e)
       /\ IF Caught(e)
          THEN /\ results' = DictSet(results, agents[cursor],
                                     FailureResult(agents[cursor], e))
               /\ cursor' = cursor + 1
               /\ pc' = "loop"
          ELSE /\ pc' = "raised"
               /\ UNCHANGED <<results, cursor>>
  /\ UNCHANGED <<response, known_bugs, seg, analysis, evaluation, sorted_agents,
                 agents, invoked>>
  /\ UNCHANGED mainVars

\* EndRunAll with the loop left after its first pass
EndRunAll_Early ==
  /\ pc = "loop"
  /\ cursor > 1
  /\ pc' = "ran"
  /\ UNCHANGED <<response, known_bugs, seg, analysis, evaluation, sorted_agents,
                 agents, results, cursor, invoked, outcomes>>
  /\ UNCHANGED mainVars

\* line 162: the loop is over, run_all_agents returns self.results
EndRunAll ==
  /\ pc = "loop"
  /\ cursor > Len(agents)
  /\ pc' = "ran"
  /\ UNCHANGED <<response, known_bugs, seg, analysis, evaluation, sorted_agents,
                 agents, results, cursor, invoked, outcomes>>
  /\ UNCHANGED mainVars

Next ==
  \/ BeginRunAll
  \/ InvokeAdapter
  \/ AdapterReturns
  \/ AdapterReturnsMalformed
  \/ AdapterRaises
  \/ EndRunAll

Spec == Init /\ [][Next]_vars

(***************************************************************************)
(* C10                                                                     *)
(***************************************************************************)
\* the last call of the adapter of agent a that has ended
LastCall(a) ==
  CHOOSE k \in 1..Len(outcomes) :
    invoked[k] = a /\ \A m \in (k + 1)..Len(outcomes) : invoked[m] # a

\* C10: run_all_agents calls the adapter of each entry of the agent list once, in
\* list order; an adapter that raises is recorded as a result with success = false
\* and its error text, later agents are still invoked, and the run ends with one
\* AgentResult per agent.
C10_FailuresIsolated ==
  /\ pc # "raised"
  /\ Len(invoked) <= Len(agents)
  /\ \A k \in 1..Len(invoked) : invoked[k] = agents[k]
  /\ pc = "ran" =>
       /\ invoked = agents
       /\ Len(outcomes) = Len(agents)
       /\ DictKeys(results) = {agents[k] : k \in 1..Len(agents)}
       /\ \A a \in DictKeys(results) :
            LET r == DictGet(results, a)
                o == outcomes[LastCall(a)]
            IN  /\ r.agent = a
                /\ r.success = (o.class = "return")
                /\ o.class = "return" => r.response = o.message
                /\ o.class = "TimeoutError" => r.stderr = E_TIMED_OUT
                /\ o.class \notin {"return", "TimeoutError"} => r.stderr = o.message

\* the first adapter raised, a later one was still invoked and returned, and the
\* run ended with a result for both
C10_Witness ==
  /\ pc = "ran"
  /\ Len(agents) >= 2
  /\ agents[1] # agents[2]
  /\ outcomes[1].class = "ValueError"
  /\ outcomes[2].class = "return"
  /\ ~DictGet(results, agents[1]).success
  /\ DictGet(results, agents[2]).success


(***************************************************************************)
(* The Ground-Truth Scanner: scan_for_bugs and _extract_bugs_from_file,    *)
(* lines 57-93 of eval/harness.py.  A codebase is the path given to the    *)
(* harness, whether a directory exists there, and the files below it in    *)
(* os.walk order, each with its path, whether open() succeeds and its text.*)
(***************************************************************************)
MaxFiles == 2

\* "test_codebase"
DEFAULT_CODEBASE_PATH ==
  <<"t","e","s","t","_","c","o","d","e","b","a","s","e">>

\* the literal part of DEFAULT_BUG_PATTERN, r"# BUG:\s*(.*)"
DEFAULT_BUG_PATTERN ==
  <<"#"," ","B","U","G",":">>

\* str.endswith
endswith(t, w) == Len(t) >= Len(w) /\ StartsAt(t, Len(t) - Len(w) + 1, w)

\* line 82: file_path.relative_to(self.codebase_path) as a string
relative_to(file_path, root) == SubSeq(file_path, Len(root) + 2, Len(file_path))

\* line 85: the lines of an open text file, each with its line break
RECURSIVE FileLinesFrom(_, _)
FileLinesFrom(t, i) ==
  LET b == FirstOf({j \in i..Len(t) : t[j] = "\n"}, Len(t))
  IN  IF i > Len(t) THEN <<>> ELSE <<SubSeq(t, i, b)>> \o FileLinesFrom(t, b + 1)

\* line 86: re.search(self.bug_pattern, line), the position of the leftmost
\* match, 0 for None
BugMatch(line) ==
  FirstOf({i \in 1..Len(line) : StartsAt(line, i, DEFAULT_BUG_PATTERN)}, 0)

\* line 88: match.group(1); after the greedy \s* the greedy .* runs to the line
\* break or to the end of the line
BugGroup(line) ==
  LET a == SkipSpace(line, BugMatch(line) + Len(DEFAULT_BUG_PATTERN))
      b == FirstOf({j \in a..Len(line) : line[j] = "\n"}, Len(line) + 1)
  IN  SubSeq(line, a, b - 1)

\* BugRecord with the lines counted from 0, as enumerate(f) would
BugRecord_ZeroBased(rel_path, i, line) ==
  [file |-> rel_path, line |-> i - 1, description |-> strip(BugGroup(line))]

\* lines 88-93: the record of line i of the file
BugRecord(rel_path, i, line) ==
  [file |-> rel_path, line |-> i, description |-> strip(BugGroup(line))]

\* lines 85-93: the loop from line i on, appending to found
RECURSIVE ExtractFrom(_, _, _, _)
ExtractFrom(rel_path, lines, i, found) ==
  IF i > Len(lines) THEN found
  ELSE ExtractFrom(rel_path, lines, i + 1,
                   IF BugMatch(lines[i]) # 0
                   THEN Append(found, BugRecord(rel_path, i, lines[i]))
                   ELSE found)

\* lines 75-93: open() of a file that cannot be read raises before any line is read
extract_bugs_from_file(root, file, found) ==
  IF file.readable
  THEN [bugs |-> ExtractFrom(relative_to(file.path, root), FileLinesFrom(file.text, 1),
                             1, found),
        raised |-> FALSE]
  ELSE [bugs |-> found, raised |-> TRUE]

\* lines 66-70: the walk from file k on; an exception of open() ends it
RECURSIVE ScanFrom(_, _, _, _)
ScanFrom(root, files, k, found) ==
  IF k > Len(files) THEN [bugs |-> found, raised |-> FALSE]
  ELSE IF ~endswith(files[k].path, W_py) THEN ScanFrom(root, files, k + 1, found)
  ELSE LET r == extract_bugs_from_file(root, files[k], found)
       IN  IF r.raised THEN r ELSE ScanFrom(root, files, k + 1, r.bugs)

\* line 66: os.walk swallows the error of a top directory that does not exist
\* and yields nothing
Walk(tree) == IF tree.exists THEN tree.files ELSE <<>>

\* lines 57-73: self.bugs after the call, begun with self.bugs = found, and
\* whether the call raised
scan_for_bugs(tree, found) == ScanFrom(tree.root, Walk(tree), 1, found)

\* "test_codebase/src/cache.py"
P_CACHE ==
  <<"t","e","s","t","_","c","o","d","e","b","a","s","e","/","s","r","c","/","c","a","c",
    "h","e",".","p","y">>

\* "test_codebase/a.py"
P_A ==
  <<"t","e","s","t","_","c","o","d","e","b","a","s","e","/","a",".","p","y">>

\* "test_codebase/notes.txt"
P_NOTES ==
  <<"t","e","s","t","_","c","o","d","e","b","a","s","e","/","n","o","t","e","s",".","t",
    "x","t">>

\* "x = 1\n"
T_CLEAN ==
  <<"x"," ","="," ","1","\n">>

\* "# BUG: Timeout\n"
T_TIMEOUT ==
  <<"#"," ","B","U","G",":"," ","T","i","m","e","o","u","t","\n">>

\* "x = 1\n    y = 2  # BUG:  cache eviction fails \n# BUG: Timeout"
T_TWO ==
  <<"x"," ","="," ","1","\n"," "," "," "," ","y"," ","="," ","2"," "," ","#"," ","B",
    "U","G",":"," "," ","c","a","c","h","e"," ","e","v","i","c","t","i","o","n"," ","f",
    "a","i","l","s"," ","\n","#"," ","B","U","G",":"," ","T","i","m","e","o","u","t">>

PathPool == {P_CACHE, P_A, P_NOTES}

TextPool == {<<>>, T_CLEAN, T_TIMEOUT, T_TWO}

\* a file that can be read, or one whose open() raises
FilePool ==
  {[path |-> p, readable |-> TRUE, text |-> t] : p \in PathPool, t \in TextPool}
    \cup {[path |-> p, readable |-> FALSE, text |-> <<>>] : p \in PathPool}

\* the trees of at most MaxFiles files, and the path where nothing exists
Codebases ==
  {[root |-> DEFAULT_CODEBASE_PATH, exists |-> FALSE, files |-> <<>>]}
    \cup UNION {{[root |-> DEFAULT_CODEBASE_PATH, exists |-> TRUE, files |-> f] :
                   f \in {g \in [1..n -> FilePool] :
                            \A i, j \in 1..n : g[i].path = g[j].path => i = j}} :
                n \in 0..MaxFiles}

\* lines 41-45: a harness constructed for the codebase
InitScan ==
  /\ codebase \in Codebases
  /\ self_bugs = <<>>
  /\ argv = NoValue
  /\ calls = <<>>
  /\ report = NoValue
  /\ stdout = <<>>
  /\ exit_status = -1
  /\ response = <<>>
  /\ known_bugs = <<>>
  /\ seg = NoValue
  /\ analysis = NoValue
  /\ evaluation = <<>>
  /\ sorted_agents = <<>>
  /\ agents = <<>>
  /\ results = <<>>
  /\ cursor = 0
  /\ invoked = <<>>
  /\ outcomes = <<>>
  /\ pc = "constructed"

\* lines 57-73: scan_for_bugs returns self.bugs or raises
ScanForBugs ==
  /\ pc = "constructed"
  /\ LET r == scan_for_bugs(codebase, self_bugs)
     IN  /\ self_bugs' = r.bugs
         /\ pc' = IF r.raised THEN "scan_raised" ELSE "scanned"
  /\ UNCHANGED <<response, known_bugs, seg, analysis, evaluation, sorted_agents,
                 agents, results, cursor, invoked, outcomes, argv, codebase, calls,
                 report, stdout, exit_status>>

\* lines 57-73 called once more on the same harness: the loop appends to the
\* self.bugs the first call left
ScanForBugsAgain ==
  /\ pc = "scanned"
  /\ LET r == scan_for_bugs(codebase, self_bugs)
     IN  /\ self_bugs' = r.bugs
         /\ pc' = IF r.raised THEN "scan_raised" ELSE "rescanned"
  /\ UNCHANGED <<response, known_bugs, seg, analysis, evaluation, sorted_agents,
                 agents, results, cursor, invoked, outcomes, argv, codebase, calls,
                 report, stdout, exit_status>>

NextScan ==
  \/ ScanForBugs
  \/ ScanForBugsAgain

SpecScan == InitScan /\ [][NextScan]_vars

(***************************************************************************)
(* C16                                                                     *)
(***************************************************************************)
\* the number of the line that holds position p of text t, counted from 1
LineOf(t, p) == 1 + Cardinality({q \in 1..(p - 1) : t[q] = "\n"})

\* the sentinel matches of the tree: file k ends in .py and its text holds the
\* sentinel at position p, outside the description of a match on the same line
SentinelMatches ==
  {h \in UNION {{<<k, p>> : p \in 1..Len(codebase.files[k].text)} :
                  k \in 1..Len(codebase.files)} :
     LET t == codebase.files[h[1]].text
     IN  /\ codebase.exists
         /\ endswith(codebase.files[h[1]].path, W_py)
         /\ StartsAt(t, h[2], DEFAULT_BUG_PATTERN)
         /\ \A q \in 1..(h[2] - 1) :
              StartsAt(t, q, DEFAULT_BUG_PATTERN) => LineOf(t, q) # LineOf(t, h[2])}

\* match g comes before match h in traversal order, then in line order
MatchBefore(g, h) == g[1] < h[1] \/ (g[1] = h[1] /\ g[2] < h[2])

\* C16: when scan_for_bugs returns on a fresh harness, self.bugs holds one record
\* per sentinel match of the .py files of the tree, in traversal order and then
\* line order, each with the path relative to the root and the line counted from
\* 1; matches with equal line numbers or equal descriptions are all kept.
C16_ScanRecordsEverySentinelMatch ==
  pc = "scanned" =>
    /\ Len(self_bugs) = Cardinality(SentinelMatches)
    /\ \A h \in SentinelMatches :
         LET n == 1 + Cardinality({g \in SentinelMatches : MatchBefore(g, h)})
             f == codebase.files[h[1]]
         IN  /\ f.path = codebase.root \o <<"/">> \o self_bugs[n].file
             /\ self_bugs[n].line = LineOf(f.text, h[2])
             /\ self_bugs[n].line >= 1

\* two files with the same sentinel on the same line, and a record for each
C16_Witness ==
  /\ pc = "scanned"
  /\ Len(self_bugs) = 2
  /\ self_bugs[1].file # self_bugs[2].file
  /\ self_bugs[1].line = self_bugs[2].line
  /\ self_bugs[1].description = self_bugs[2].description


(***************************************************************************)
(* calculate_evaluation_metrics: lines 148-174 of eval/metrics.py.         *)
(***************************************************************************)
\* EvaluateResult with every response analysed, that of a failed agent included
EvaluateResult_AnalyzesFailed(result, bugs) ==
  [raised   |-> FALSE,
   analyzed |-> <<result.response>>,
   entry    |-> analyze_agent_response(result.response, bugs)]

\* lines 162-172 for one result: the entry of the agent, the value passed to
\* analyze_agent_response if it was called, and whether the call raised (line 32:
\* re.findall of a value that is no str raises TypeError)
EvaluateResult(result, bugs) ==
  IF result.success
  THEN IF result.response = None
       THEN [raised |-> TRUE, analyzed |-> <<result.response>>, entry |-> NoValue]
       ELSE [raised   |-> FALSE,
             analyzed |-> <<result.response>>,
             entry    |-> analyze_agent_response(result.response, bugs)]
  ELSE [raised   |-> FALSE,
        analyzed |-> <<>>,
        entry    |-> FailedMetrics(Len(bugs), result.stderr)]

\* lines 164 and 166: evaluation[agent] = the entry r holds, unless computing it
\* raised
StoreEntry(acc, agent, r) ==
  [evaluation |-> IF r.raised THEN acc.evaluation
                  ELSE DictSet(acc.evaluation, agent, r.entry),
   calls      |-> acc.calls \o r.analyzed,
   raised     |-> r.raised]

\* lines 161-172: the loop over results.items() from item i on; an exception
\* ends it and leaves the function
RECURSIVE EvaluateFrom(_, _, _, _)
EvaluateFrom(res, bugs, i, acc) ==
  IF i > Len(res) \/ acc.raised THEN acc
  ELSE EvaluateFrom(res, bugs, i + 1,
                    StoreEntry(acc, res[i][1], EvaluateResult(res[i][2], bugs)))

\* lines 159-174: the returned mapping, the calls of analyze_agent_response, and
\* whether an exception left the function
calculate_evaluation_metrics(res, bugs) ==
  EvaluateFrom(res, bugs, 1, [evaluation |-> <<>>, calls |-> <<>>, raised |-> FALSE])

(***************************************************************************)
(* main: lines 210-258 of eval/harness.py.  The process exits with status  *)
(* 0 when main returns and with status 1 when an exception leaves it.      *)
(***************************************************************************)
MaxDefaultAgents == 2

\* lines 48-55, the first MaxDefaultAgents of the six default agents
DEFAULT_AGENTS ==
  SubSeq(<<"langchain_example.py", "llamaindex_example.py",
           "semantic_kernel_example.py", "autogen_example.py",
           "smolagents_example.py", "dspy_react_example.py">>, 1, MaxDefaultAgents)

\* line 223
E_NO_API_KEY ==
  <<"E","r","r","o","r",":"," ","N","o"," ","O","p","e","n","A","I"," ","A","P","I"," ",
    "k","e","y"," ","p","r","o","v","i","d","e","d","."," ","P","l","e","a","s","e"," ",
    "p","r","o","v","i","d","e"," ","o","n","e"," ","w","i","t","h"," ","-","-","a","p",
    "i","-","k","e","y"," ","o","r"," ","s","e","t"," ","t","h","e"," ","O","P","E","N",
    "A","I","_","A","P","I","_","K","E","Y"," ","e","n","v","i","r","o","n","m","e","n",
    "t"," ","v","a","r","i","a","b","l","e",".">>

DigitChar == <<"0", "1", "2", "3", "4", "5", "6", "7", "8", "9">>

\* str() of a natural number
RECURSIVE FormatInt(_)
FormatInt(n) ==
  IF n < 10 THEN <<DigitChar[n + 1]>> ELSE FormatInt(n \div 10) \o <<DigitChar[(n % 10) + 1]>>

\* BugLine with the bugs numbered from 0, as enumerate without its start gives
BugLine_FromZero(i, bug) ==
  FormatInt(i - 1) \o <<".", " ">> \o bug.file \o <<" ", "(", "l", "i", "n", "e", " ">>
    \o FormatInt(bug.line) \o <<")", ":", " ">> \o bug.description

\* lines 241-242: enumerate(evaluator.bugs, 1) and
\* f"{i}. {bug['file']} (line {bug['line']}): {bug['description']}"
BugLine(i, bug) ==
  FormatInt(i) \o <<".", " ">> \o bug.file \o <<" ", "(", "l", "i", "n", "e", " ">>
    \o FormatInt(bug.line) \o <<")", ":", " ">> \o bug.description

\* the command lines: a key given by --api-key or the environment or none,
\* --scan-only or not, and --agent absent (""), a default agent or another name
Argvs ==
  [api_key : BOOLEAN, scan_only : BOOLEAN,
   agent : {"", DEFAULT_AGENTS[1], "unknown_example.py"}]

\* what --codebase points at: nothing, an empty directory, a file with two
\* sentinel lines, a file with one followed by a file that cannot be read
MainCodebases ==
  {[root |-> DEFAULT_CODEBASE_PATH, exists |-> FALSE, files |-> <<>>],
   [root |-> DEFAULT_CODEBASE_PATH, exists |-> TRUE, files |-> <<>>],
   [root |-> DEFAULT_CODEBASE_PATH, exists |-> TRUE,
    files |-> <<[path |-> P_CACHE, readable |-> TRUE, text |-> T_TWO]>>],
   [root |-> DEFAULT_CODEBASE_PATH, exists |-> TRUE,
    files |-> <<[path |-> P_CACHE, readable |-> TRUE, text |-> T_TIMEOUT],
                [path |-> P_A, readable |-> FALSE, text |-> <<>>]>>]}

\* the process has started main
InitMain ==
  /\ argv \in Argvs
  /\ codebase \in MainCodebases
  /\ self_bugs = <<>>
  /\ calls = <<>>
  /\ report = NoValue
  /\ stdout = <<>>
  /\ exit_status = -1
  /\ response = <<>>
  /\ known_bugs = <<>>
  /\ seg = NoValue
  /\ analysis = NoValue
  /\ evaluation = <<>>
  /\ sorted_agents = <<>>
  /\ agents = <<>>
  /\ results = <<>>
  /\ cursor = 0
  /\ invoked = <<>>
  /\ outcomes = <<>>
  /\ pc = "main"

\* lines 220-224: without a key and without --scan-only main prints the error
\* and returns
MainCheckKey ==
  /\ pc = "main"
  /\ IF ~argv.api_key /\ ~argv.scan_only
     THEN /\ stdout' = Append(stdout, [print |-> "error", text |-> E_NO_API_KEY])
          /\ exit_status' = 0
          /\ pc' = "exited"
     ELSE /\ pc' = "init"
          /\ UNCHANGED <<stdout, exit_status>>
  /\ UNCHANGED <<response, known_bugs, seg, analysis, evaluation, sorted_agents,
                 agents, results, cursor, invoked, outcomes, argv, codebase,
                 self_bugs, calls, report>>

\* lines 230-237: the harness is constructed with the default agents and the
\* codebase is scanned; an exception of the scan leaves main
MainScan ==
  /\ pc = "init"
  /\ agents' = DEFAULT_AGENTS
  /\ results' = <<>>
  /\ LET r == scan_for_bugs(codebase, <<>>)
     IN  /\ self_bugs' = r.bugs
         /\ IF r.raised
            THEN exit_status' = 1 /\ pc' = "crashed"
            ELSE pc' = "scanned" /\ UNCHANGED exit_status
  /\ UNCHANGED <<response, known_bugs, seg, analysis, evaluation, sorted_agents,
                 cursor, invoked, outcomes, argv, codebase, calls, report, stdout>>

\* lines 240-243: --scan-only prints the bugs and returns
MainScanOnly ==
  /\ pc = "scanned"
  /\ argv.scan_only
  /\ stdout' = stdout \o [i \in 1..Len(self_bugs) |->
                            [print |-> "bug", text |-> BugLine(i, self_bugs[i])]]
  /\ exit_status' = 0
  /\ pc' = "exited"
  /\ UNCHANGED <<response, known_bugs, seg, analysis, evaluation, sorted_agents,
                 agents, results, cursor, invoked, outcomes, argv, codebase,
                 self_bugs, calls, report>>

\* lines 246-249: --agent names no agent of the harness
MainUnknownAgent ==
  /\ pc = "scanned"
  /\ ~argv.scan_only
  /\ argv.agent # ""
  /\ \A k \in 1..Len(agents) : agents[k] # argv.agent
  /\ stdout' = Append(stdout, [print |-> "unknown_agent", agent |-> argv.agent,
                               available |-> agents])
  /\ exit_status' = 0
  /\ pc' = "exited"
  /\ UNCHANGED <<response, known_bugs, seg, analysis, evaluation, sorted_agents,
                 agents, results, cursor, invoked, outcomes, argv, codebase,
                 self_bugs, calls, report>>

\* line 254: run_all_agents is called and its loop begins
MainRunAll ==
  /\ pc = "scanned"
  /\ ~argv.scan_only
  /\ argv.agent = ""
  /\ cursor' = 1
  /\ pc' = "loop"
  /\ UNCHANGED <<response, known_bugs, seg, analysis, evaluation, sorted_agents,
                 agents, results, invoked, outcomes>>
  /\ UNCHANGED mainVars

\* lines 251 and 106-119: run_agent calls the adapter of the agent --agent names
MainRunOne ==
  /\ pc = "scanned"
  /\ ~argv.scan_only
  /\ argv.agent # ""
  /\ \E k \in 1..Len(agents) : agents[k] = argv.agent
  /\ invoked' = Append(invoked, argv.agent)
  /\ pc' = "invoked_one"
  /\ UNCHANGED <<response, known_bugs, seg, analysis, evaluation, sorted_agents,
                 agents, results, cursor, outcomes>>
  /\ UNCHANGED mainVars

\* lines 119-129 and 252: the adapter returns, the result is stored
OneReturns ==
  /\ pc = "invoked_one"
  /\ \E text \in AdapterResponses :
       /\ outcomes' = Append(outcomes, [class |-> "return", message |-> text])
       /\ results' = DictSet(results, argv.agent, SuccessResult(argv.agent, text))
  /\ pc' = "ran"
  /\ UNCHANGED <<response, known_bugs, seg, analysis, evaluation, sorted_agents,
                 agents, cursor, invoked>>
  /\ UNCHANGED mainVars

\* lines 119-129 and 252: the adapter returns a value that is no str (None)
OneReturnsMalformed ==
  /\ pc = "invoked_one"
  /\ outcomes' = Append(outcomes, [class |-> "return", message |-> None])
  /\ results' = DictSet(results, argv.agent, SuccessResult(argv.agent, None))
  /\ pc' = "ran"
  /\ UNCHANGED <<response, known_bugs, seg, analysis, evaluation, sorted_agents,
                 agents, cursor, invoked>>
  /\ UNCHANGED mainVars

\* lines 131-146 and 252: the adapter raises; a caught exception becomes the
\* stored result, any other leaves main
OneRaises ==
  /\ pc = "invoked_one"
  /\ \E e \in AdapterExceptions :
       /\ outcomes' = Append(outcomes, e)
       /\ IF Caught(e)
          THEN /\ results' = DictSet(results, argv.agent, FailureResult(argv.agent, e))
               /\ pc' = "ran"
          ELSE /\ pc' = "raised"
               /\ UNCHANGED results
  /\ UNCHANGED <<response, known_bugs, seg, analysis, evaluation, sorted_agents,
                 agents, cursor, invoked>>
  /\ UNCHANGED mainVars

\* an object json cannot encode (an exception, a set, bytes), where a str may stand
NotJson == <<"object">>

\* the report file after open(output_path, 'w') and a json.dump that raised: the
\* file exists and holds the part written before the exception
Truncated == [truncated |-> TRUE]

\* line 188: json.dump encodes the output; the agent names, the bug records, the
\* counts and the recall are str, int and float, the texts are str or None unless
\* a recorded result holds another object
JsonEncodable(output) ==
  /\ \A i \in 1..Len(output.agent_results) :
       /\ output.agent_results[i][2].response # NotJson
       /\ output.agent_results[i][2].stderr # NotJson
  /\ \A i \in 1..Len(output.evaluation) :
       "error" \in DOMAIN output.evaluation[i][2] => output.evaluation[i][2].error # NotJson

\* lines 187-190: the file is opened and the output dumped; "Results saved" is
\* printed when json.dump returned, its exception leaves save_results
DumpOutput(output) ==
  IF JsonEncodable(output)
  THEN /\ report' = output
       /\ stdout' = Append(stdout, [print |-> "saved", text |-> <<>>])
       /\ pc' = "saved"
       /\ UNCHANGED exit_status
  ELSE /\ report' = Truncated
       /\ exit_status' = 1
       /\ pc' = "crashed"
       /\ UNCHANGED stdout

\* save_results with the except clause of src/test_codebase/src/utils.py (lines
\* 109-115): the exception of json.dump is logged and save_results returns
save_results_Swallows(r) ==
  /\ calls' = calls \o r.calls
  /\ evaluation' = r.evaluation
  /\ report' = Truncated
  /\ pc' = "saved"
  /\ UNCHANGED <<exit_status, stdout>>

\* lines 257 and 173-190: save_results evaluates every recorded result and dumps
\* the bugs, the results and the evaluation to the output file; an exception of
\* the evaluation leaves it before the file is opened, an exception of json.dump
\* after
save_results(r) ==
  /\ calls' = calls \o r.calls
  /\ IF r.raised
     THEN /\ exit_status' = 1
          /\ pc' = "crashed"
          /\ UNCHANGED <<evaluation, report, stdout>>
     ELSE /\ evaluation' = r.evaluation
          /\ DumpOutput([known_bugs    |-> self_bugs,
                         agent_results |-> results,
                         evaluation    |-> r.evaluation])

\* MainSaveResults with a scan of the codebase before the evaluation
MainSaveResults_Rescans ==
  /\ pc = "ran"
  /\ save_results(calculate_evaluation_metrics(results, self_bugs))
  /\ self_bugs' = scan_for_bugs(codebase, self_bugs).bugs
  /\ UNCHANGED <<response, known_bugs, seg, analysis, sorted_agents, agents, results,
                 cursor, invoked, outcomes, argv, codebase>>

\* line 257: main calls save_results; r of save_results is what
\* evaluate_all_responses (line 183) gives
MainSaveResults ==
  /\ pc = "ran"
  /\ save_results(calculate_evaluation_metrics(results, self_bugs))
  /\ UNCHANGED <<response, known_bugs, seg, analysis, sorted_agents, agents, results,
                 cursor, invoked, outcomes, argv, codebase, self_bugs>>

\* lines 258 and 192-208: print_summary evaluates again and ranks the agents;
\* main returns
print_summary(r) ==
  /\ calls' = calls \o r.calls
  /\ IF r.raised
     THEN /\ exit_status' = 1
          /\ pc' = "crashed"
          /\ UNCHANGED <<evaluation, sorted_agents>>
     ELSE /\ evaluation' = r.evaluation
          /\ sorted_agents' = get_sorted_evaluation(r.evaluation)
          /\ exit_status' = 0
          /\ pc' = "exited"

\* line 258: main calls print_summary and returns; r of print_summary is what
\* evaluate_all_responses (line 194) gives
MainPrintSummary ==
  /\ pc = "saved"
  /\ print_summary(calculate_evaluation_metrics(results, self_bugs))
  /\ UNCHANGED <<response, known_bugs, seg, analysis, agents, results, cursor,
                 invoked, outcomes, argv, codebase, self_bugs, report, stdout>>

NextMain ==
  \/ MainCheckKey
  \/ MainScan
  \/ MainScanOnly
  \/ MainUnknownAgent
  \/ MainRunAll
  \/ InvokeAdapter
  \/ AdapterReturns
  \/ AdapterReturnsMalformed
  \/ AdapterRaises
  \/ EndRunAll
  \/ MainRunOne
  \/ OneReturns
  \/ OneReturnsMalformed
  \/ OneRaises
  \/ MainSaveResults
  \/ MainPrintSummary

SpecMain == InitMain /\ [][NextMain]_vars

(***************************************************************************)
(* C11                                                                     *)
(***************************************************************************)
\* run_all_agents takes its own steps when it can; when a call of the adapter
\* ends is up to the adapter
FairSpec ==
  /\ Init
  /\ [][Next]_vars
  /\ WF_vars(BeginRunAll)
  /\ WF_vars(InvokeAdapter)
  /\ WF_vars(EndRunAll)

\* the adapter has been called and the call has not ended
InInvocation == pc \in {"invoked", "invoked_one"}

\* C11: every invocation of an adapter is bounded by a timeout: a call that is
\* pending eventually resolves to a recorded result (a timed-out one when the
\* adapter never returns) and the run goes on; no run stays in the invocation
\* forever.
C11_EveryInvocationResolves ==
  InInvocation ~> (Len(outcomes) = Len(invoked) /\ ~InInvocation)

(***************************************************************************)
(* C12 - C15: what the evaluation holds once save_results has returned.    *)
(***************************************************************************)
\* the positions of the recorded results whose agent failed / succeeded
FailedAgents == {i \in 1..Len(results) : ~results[i][2].success}

SucceededAgents == {i \in 1..Len(results) : results[i][2].success}

\* what an AgentResult says of the outcome, the name of the agent left out
OutcomeOf(r) == <<r.success, r.response, r.stderr>>

\* C12: the AgentResult and the EvaluationResult of an agent whose adapter raised
\* TimeoutError differ from those of an agent whose adapter raised any other
\* exception.
C12_TimeoutToldApartFromError ==
  pc = "saved" =>
    \A i, j \in 1..Len(outcomes) :
      (outcomes[i].class = "TimeoutError"
         /\ outcomes[j].class \notin {"TimeoutError", "return"})
      => /\ OutcomeOf(DictGet(results, invoked[i])) # OutcomeOf(DictGet(results, invoked[j]))
         /\ DictGet(evaluation, invoked[i]) # DictGet(evaluation, invoked[j])

\* C13: whenever calculate_evaluation_metrics returns, the entry of every failed
\* agent has recall 0, bugs_found 0, no claims, total_known_bugs = len(bugs) and
\* the error text of the failure; and analyze_agent_response is never called with
\* the response text of a failed agent, only with the response of each agent that
\* succeeded.
C13_FailedAgentsScoreZero ==
  /\ \A k \in 1..Len(calls) : \E i \in SucceededAgents : results[i][2].response = calls[k]
  /\ pc = "saved" =>
       /\ Len(calls) = Cardinality(SucceededAgents)
       /\ \A i \in FailedAgents :
            LET e == DictGet(evaluation, results[i][1])
            IN  /\ e.recall.num = 0
                /\ e.bugs_found = 0
                /\ e.found_bug_details = <<>>
                /\ e.total_known_bugs = Len(self_bugs)
                /\ e.error = results[i][2].stderr
                /\ DictGet(report.evaluation, results[i][1]) = e

\* two bugs are known, one agent failed and is scored zero, the other agent's
\* response was analysed and matched a bug
C13_Witness ==
  /\ pc = "saved"
  /\ Len(self_bugs) = 2
  /\ FailedAgents # {}
  /\ \E i \in SucceededAgents : DictGet(evaluation, results[i][1]).bugs_found > 0
  /\ \A i \in FailedAgents : DictGet(evaluation, results[i][1]).total_known_bugs = 2

\* C14: after all agents resolved the evaluation holds one entry per AgentResult
\* (the keys of agent_results) and every entry has the same set of fields, whether
\* the agent succeeded or failed.
C14_UniformEvaluationResults ==
  pc = "saved" =>
    /\ DictKeys(evaluation) = DictKeys(results)
    /\ Len(evaluation) = Len(results)
    /\ \A i, j \in 1..Len(evaluation) : DOMAIN evaluation[i][2] = DOMAIN evaluation[j][2]

\* C15: an error of one agent's invocation, a malformed response (a returned
\* value that is no str) included, stays with that agent: once an adapter call has
\* ended, no exception leaves the evaluation, and when main has ended the report
\* is written with an entry for every agent.
C15_InvocationErrorsStayWithTheAgent ==
  /\ pc = "crashed" => outcomes = <<>>
  /\ (pc = "exited" /\ outcomes # <<>>) =>
       /\ report # NoValue
       /\ DictKeys(report.evaluation) = DictKeys(results)


(***************************************************************************)
(* C17 - C20: the runs of main.                                            *)
(***************************************************************************)
\* C17: a codebase root that does not exist is fatal: scan_for_bugs does not
\* return normally to main, no agent is invoked and no report is written.
C17_MissingRootIsFatal ==
  ~codebase.exists =>
    /\ pc # "scanned"
    /\ invoked = <<>>
    /\ report = NoValue

\* C18: without an API key and without --scan-only the error is printed before
\* any agent runs, no agent is invoked, no report is written and the process ends
\* with a non-zero exit status.
C18_MissingKeyIsFatal ==
  (~argv.api_key /\ ~argv.scan_only) =>
    /\ pc \in {"main", "exited"}
    /\ invoked = <<>>
    /\ report = NoValue
    /\ pc = "exited" =>
         /\ stdout = <<[print |-> "error", text |-> E_NO_API_KEY]>>
         /\ exit_status # 0

\* C19: with --scan-only, with or without an API key, main scans the codebase,
\* prints one line "N. <file> (line <line>): <description>" per known bug, N
\* counting from 1 in scan order, and returns; no agent is ever invoked, no result
\* is recorded and no report is written.
C19_ScanOnlyPrintsAndEnds ==
  argv.scan_only =>
    /\ pc \in {"main", "init", "scanned", "exited", "crashed"}
    /\ invoked = <<>>
    /\ results = <<>>
    /\ report = NoValue
    /\ pc = "exited" =>
         /\ Len(self_bugs) = Cardinality(SentinelMatches)
         /\ Len(stdout) = Len(self_bugs)
         /\ \A k \in 1..Len(stdout) :
              /\ stdout[k].print = "bug"
              /\ stdout[k].text =
                   FormatInt(k) \o <<".", " ">> \o self_bugs[k].file
                     \o <<" ", "(", "l", "i", "n", "e", " ">>
                     \o FormatInt(self_bugs[k].line) \o <<")", ":", " ">>
                     \o self_bugs[k].description

\* a scan-only run without a key has printed its two bugs and returned
C19_Witness ==
  /\ argv.scan_only
  /\ ~argv.api_key
  /\ pc = "exited"
  /\ Len(stdout) = 2
  /\ stdout[1].text[1] = "1"
  /\ stdout[2].text[1] = "2"
  /\ self_bugs[1].line < self_bugs[2].line

\* C20: once the scan has returned, no step of the run changes self.bugs: run_agent,
\* run_all_agents, evaluate_all_responses, save_results and print_summary leave
\* the list as it is, records and order; and the steps that evaluate (save_results,
\* print_summary) leave self.results as it is.
C20_BugListFixedOnceScanned ==
  [][/\ pc \notin {"main", "init"} => self_bugs' = self_bugs
     /\ pc \in {"ran", "saved"} => results' = results]_vars

\* both agents ran against two known bugs, the report holds the scanned list and
\* the recorded results, and the summary has been printed
C20_Witness ==
  /\ pc = "exited"
  /\ report # NoValue
  /\ Len(self_bugs) = 2
  /\ Len(results) = 2
  /\ Len(calls) > 0
  /\ report.known_bugs = self_bugs
  /\ report.agent_results = results
  /\ sorted_agents # <<>>

(***************************************************************************)
(* C21: the order of the stages of a run of main.                          *)
(***************************************************************************)
\* the agents the command line selects: the one --agent names, else all
SelectedAgents ==
  IF argv.agent = "" THEN {agents[k] : k \in 1..Len(agents)} ELSE {argv.agent}

\* the stage of the run: INIT, SCANNED, PER-AGENT, all resolved, SAVED, ended
Stage(p) ==
  CASE p \in {"main", "init"} -> 0
    [] p = "scanned" -> 1
    [] p \in {"loop", "invoked", "invoked_one"} -> 2
    [] p = "ran" -> 3
    [] p = "saved" -> 4
    [] OTHER -> 5

\* evaluate_all_responses has been entered
EvaluationStarted ==
  calls # <<>> \/ evaluation # <<>> \/ report # NoValue \/ pc = "saved"

\* C21: the stages of a run follow one another in the order INIT, SCANNED,
\* per-agent invocations, AGGREGATED, SAVED and are never gone back through; an
\* agent is invoked only after the scan has returned the bugs of the codebase;
\* the evaluation starts only when every selected agent has a recorded result and
\* no call is pending; the report is written only with an evaluation entry for
\* every recorded result.
C21_StagesInOrder ==
  /\ [][Stage(pc') >= Stage(pc)]_vars
  /\ [](invoked # <<>> =>
          /\ Stage(pc) >= 2
          /\ Len(self_bugs) = Cardinality(SentinelMatches))
  /\ [](EvaluationStarted =>
          /\ Stage(pc) >= 3
          /\ Len(outcomes) = Len(invoked)
          /\ DictKeys(results) = SelectedAgents
          /\ {invoked[k] : k \in 1..Len(invoked)} = SelectedAgents)
  /\ [](report # NoValue =>
          /\ Stage(pc) >= 4
          /\ report.agent_results = results
          /\ report.known_bugs = self_bugs
          /\ DictKeys(report.evaluation) = DictKeys(results))

\* a full run over all default agents has ended with its report written
C21_Witness ==
  /\ pc = "exited"
  /\ argv.agent = ""
  /\ report # NoValue
  /\ Len(invoked) = Len(agents)
  /\ Len(invoked) > 1
  /\ Len(self_bugs) > 0

(***************************************************************************)
(* C22: save_results on a harness whose results a caller recorded          *)
(* (self.results is filled by the caller at line 252 of main).             *)
(***************************************************************************)
MaxSaved == 2

\* what a caller records for agent a: what run_agent returns, and a failure whose
\* stderr is the exception itself instead of its text
RecordedFor(a) ==
  {SuccessResult(a, text) : text \in AdapterResponses}
    \cup {FailureResult(a, e) : e \in AdapterExceptions}
    \cup {[agent |-> a, success |-> FALSE, response |-> T_ERROR_RESPONSE,
           stderr |-> NotJson]}

\* self.results with at most MaxSaved agents, the keys distinct
RecordedResults ==
  UNION {{d \in [1..n -> UNION {{<<a, r>> : r \in RecordedFor(a)} : a \in {"A", "B"}}] :
            \A i, j \in 1..n : d[i][1] = d[j][1] => i = j} : n \in 0..MaxSaved}

\* a harness with its bugs scanned and its results recorded, before save_results
InitSave ==
  /\ self_bugs \in {<<>>, <<BUG_A>>, <<BUG_A, BUG_S>>}
  /\ results \in RecordedResults
  /\ agents = <<"A", "B">>
  /\ argv = NoValue
  /\ codebase = NoValue
  /\ calls = <<>>
  /\ report = NoValue
  /\ stdout = <<>>
  /\ exit_status = -1
  /\ response = <<>>
  /\ known_bugs = <<>>
  /\ seg = NoValue
  /\ analysis = NoValue
  /\ evaluation = <<>>
  /\ sorted_agents = <<>>
  /\ cursor = 0
  /\ invoked = <<>>
  /\ outcomes = <<>>
  /\ pc = "ran"

NextSave ==
  \/ MainSaveResults
  \/ MainPrintSummary

SpecSave == InitSave /\ [][NextSave]_vars

\* a recorded result holds an object json cannot encode
Unserializable ==
  \E i \in 1..Len(results) :
    results[i][2].response = NotJson \/ results[i][2].stderr = NotJson

\* C22: when the payload cannot be serialized, save_results does not return: the
\* exception of json.dump leaves it (and its caller), "Results saved" is not
\* printed, and nothing after save_results runs.
C22_SerializationErrorPropagates ==
  (Unserializable /\ pc # "ran") =>
    /\ pc = "crashed"
    /\ exit_status = 1
    /\ \A k \in 1..Len(stdout) : stdout[k].print # "saved"
    /\ sorted_agents = <<>>

\* json.dump raised on a payload of two results, one of them analysed, and left
\* the file half written
C22_Witness ==
  /\ pc = "crashed"
  /\ report = Truncated
  /\ Len(results) = 2
  /\ Len(calls) = 1
  /\ Unserializable
  /\ evaluation # <<>>

(***************************************************************************)
(* C23, C29: the scan on files that cannot be read, and the scan repeated. *)
(***************************************************************************)
\* C23: a file that cannot be read is skipped: once scan_for_bugs has been called
\* it has returned and not raised, and its first return holds the records of every
\* sentinel match of the readable .py files.
C23_UnreadableFileSkipped ==
  /\ pc # "constructed" => pc \in {"scanned", "rescanned"}
  /\ pc = "scanned" => Len(self_bugs) = Cardinality(SentinelMatches)

\* C29: a second scan_for_bugs on the same harness and the same codebase leaves
\* self.bugs equal to the scan of the codebase, which is what the first call
\* returned; the list is never an accumulation of scans.
C29_ScanIdempotent ==
  pc = "rescanned" => self_bugs = scan_for_bugs(codebase, <<>>).bugs

(***************************************************************************)
(* C24 - C28, C30: the matcher and the segmenter, on the state after the   *)
(* call of analyze_agent_response.                                         *)
(***************************************************************************)
\* the position of the first known bug a rule accepts for paragraph p, 0 if none
FirstAccepted(p) == FirstOf({i \in 1..Len(known_bugs) : Accepts(p, known_bugs[i])}, 0)

\* the rule of highest precedence that accepts the bug for paragraph p
RuleKind(p, bug) ==
  IF LineRule(line_num(lower(p)), bug) THEN "line_number"
  ELSE IF FileKeywordRule(file_match(lower(p)), lower(p), bug) THEN "file_and_keyword"
  ELSE "keyword"

\* how often p is among the candidate paragraphs
Occurrences(p) ==
  Cardinality({k \in 1..Len(seg.paragraphs) : strip(seg.paragraphs[k]) = p})

ContainsEitherWay(a, b) == Contains(a, b) \/ Contains(b, a)

\* C25: a bug-shaped paragraph that names a file is matched via file_and_keyword
\* to the first bug (none before it accepted, its line not the claimed one) whose
\* lowered file path contains the claimed path or is contained in it and one of
\* whose keywords appears in the paragraph; so claimed "cache.py" goes with the
\* bug file "src/cache.py".
C25_FileRuleEitherDirection ==
  Analyzed =>
    \A p \in Paragraphs : \A i \in 1..Len(known_bugs) :
      LET fm    == file_match(lower(p))
          words == key_words(lower(known_bugs[i].description))
      IN  ( /\ BugShaped(p)
            /\ fm.found
            /\ ContainsEitherWay(fm.group, lower(known_bugs[i].file))
            /\ \E n \in 1..Len(words) : Contains(lower(p), words[n])
            /\ ~LineRule(line_num(lower(p)), known_bugs[i])
            /\ \A j \in 1..(i - 1) : ~Accepts(p, known_bugs[j]) )
          => /\ ClaimsFor(p) # {}
             /\ \A k \in ClaimsFor(p) :
                  /\ MatchKind(Claims[k]) = "file_and_keyword"
                  /\ Claims[k].bug_index = i - 1

\* the keywords of the bug's description as a set
KeywordSet(bug) ==
  {key_words(lower(bug.description))[n] :
     n \in 1..Len(key_words(lower(bug.description)))}

\* C26: where the keyword rule decides (the paragraph is bug-shaped, no earlier
\* bug is accepted, the line rule and the file+keyword rule fail for the bug), the
\* paragraph is matched to the bug via keyword exactly when the distinct keywords
\* of the description that appear in the paragraph number at least 2, or number 1
\* and the description has exactly one distinct keyword; a keyword the
\* description repeats counts once.
C26_KeywordRuleCountsDistinct ==
  Analyzed =>
    \A p \in Paragraphs : \A i \in 1..Len(known_bugs) :
      LET K == KeywordSet(known_bugs[i])
          M == {w \in K : Contains(lower(p), w)}
      IN  ( /\ BugShaped(p)
            /\ \A j \in 1..(i - 1) : ~Accepts(p, known_bugs[j])
            /\ ~LineRule(line_num(lower(p)), known_bugs[i])
            /\ ~FileKeywordRule(file_match(lower(p)), lower(p), known_bugs[i]) )
          => ( (\E k \in ClaimsFor(p) :
                  MatchKind(Claims[k]) = "keyword" /\ Claims[k].bug_index = i - 1)
               <=> (Cardinality(M) >= 2 \/ (Cardinality(M) = 1 /\ Cardinality(K) = 1)) )

\* C27: a bug-shaped paragraph that no rule matches to a known bug yields claims
\* exactly when its stripped text is longer than 20 characters or holds the
\* sentinel text, and then one per occurrence, each with known_bug UNKNOWN, index
\* -1 and no match kind; every claim without match kind has index -1 and every
\* claim with a match kind has the index of a known bug.
C27_UnmatchedClaims ==
  Analyzed =>
    /\ \A p \in Paragraphs :
         (BugShaped(p) /\ FirstAccepted(p) = 0) =>
           /\ ClaimsFor(p) # {} <=> (Len(p) > 20 \/ Contains(lower(p), W_sentinel))
           /\ ClaimsFor(p) # {} => Cardinality(ClaimsFor(p)) = Occurrences(p)
           /\ \A k \in ClaimsFor(p) :
                /\ MatchKind(Claims[k]) = "none"
                /\ Claims[k].bug_index = -1
                /\ Claims[k].known_bug = UNKNOWN
    /\ \A k \in 1..Len(Claims) :
         IF MatchKind(Claims[k]) = "none"
         THEN Claims[k].bug_index = -1
         ELSE Claims[k].bug_index \in 0..(Len(known_bugs) - 1)

\* a short paragraph with the sentinel text is logged as an unmatched claim
C27_Witness ==
  /\ Analyzed
  /\ known_bugs # <<>>
  /\ \E p \in Paragraphs :
       /\ Len(p) <= 20
       /\ Contains(lower(p), W_sentinel)
       /\ \E k \in ClaimsFor(p) : Claims[k].bug_index = -1

C30_LineRuleIgnoresFile ==
  Analyzed =>
    \A p \in Paragraphs : \A i \in 1..Len(known_bugs) :
      ( /\ BugShaped(p)
        /\ line_num(lower(p)) # 0
        /\ known_bugs[i].line = line_num(lower(p))
        /\ \A j \in 1..(i - 1) : ~Accepts(p, known_bugs[j]) )
      => /\ Cardinality(ClaimsFor(p)) = Occurrences(p)
         /\ \A k \in ClaimsFor(p) :
              /\ MatchKind(Claims[k]) = "line_number"
              /\ Claims[k].bug_index = i - 1

\* the paragraph names src/cache.py and line 42; it is matched to the bug of a.py
\* at line 42, listed first, and not to the bug of src/cache.py at line 42
C30_Witness ==
  /\ Analyzed
  /\ Len(known_bugs) = 2
  /\ known_bugs[1].line = known_bugs[2].line
  /\ \E p \in Paragraphs :
       LET fm == file_match(lower(p))
       IN  /\ fm.found
           /\ fm.group = lower(known_bugs[2].file)
           /\ ~Contains(fm.group, lower(known_bugs[1].file))
           /\ line_num(lower(p)) = known_bugs[2].line
           /\ \E k \in ClaimsFor(p) :
                MatchKind(Claims[k]) = "line_number" /\ Claims[k].bug_index = 0

=============================================================================
